---- MODULE Spec2Model ----
(***************************************************************************)
(* A model of the storage engine of mcp-security-report                    *)
(* (src/server/storage/index.ts): the project index with its in-memory     *)
(* snapshot, the file-based locks, the transactional project creation, the *)
(* record operations and the paginated directory listing.                  *)
(*                                                                         *)
(* One step of the model is one await of the code: an fs call, a lock      *)
(* acquisition, a lock release.  Synchronous code between two awaits is    *)
(* part of the step that follows the first await.                          *)
(***************************************************************************)
EXTENDS Integers, Sequences, FiniteSets, TLC

(***************************************************************************)
(* Bounds of the model.                                                    *)
(***************************************************************************)
MaxTime == 1        \* Date.now() ranges over 0..MaxTime
MaxFaults == 2      \* injected fs failures per behaviour
MaxCalls == 2       \* storage calls started per behaviour
MaxRecordCalls == 2 \* the same, for the behaviours of the record operations
MaxFiles == 7       \* finding files in the listed directory
MaxLimit == 2       \* listFindings limit ranges over 1..MaxLimit
MaxOffset == 1      \* listFindings offset ranges over 0..MaxOffset
MaxText == 5        \* characters of the description of a written record
MaxMutations == 3   \* project and finding mutations next to the list calls
MaxLists == 2       \* listFindings calls next to the mutations
MaxWithLocks == 3   \* withLock calls on one key
MaxUpdates == 2     \* updateFinding calls on one finding
MaxReads == 2       \* getFinding calls next to them

(***************************************************************************)
(* Names.  A project name is a sequence of characters; the alphabet is     *)
(* small but has a letter in both cases, a blank and a character that the  *)
(* sanitizer removes.                                                      *)
(***************************************************************************)
RawNames == {<<"p">>, <<"P">>, <<"q">>}

IsAllowedChar(c) == c \in {"p", "q", "P", "Q", "-", "_", " "}

IsSpace(c) == c = " "

ToLowerChar(c) == CASE c = "P" -> "p" [] c = "Q" -> "q" [] OTHER -> c

RECURSIVE StripDisallowed(_)
StripDisallowed(s) ==
    IF s = <<>> THEN <<>>
    ELSE IF IsAllowedChar(Head(s)) THEN <<Head(s)>> \o StripDisallowed(Tail(s))
    ELSE StripDisallowed(Tail(s))

RECURSIVE DashSpaces(_)
DashSpaces(s) ==
    IF s = <<>> THEN <<>>
    ELSE IF IsSpace(Head(s))
         THEN IF Len(s) > 1 /\ IsSpace(s[2]) THEN DashSpaces(Tail(s))
              ELSE <<"-">> \o DashSpaces(Tail(s))
         ELSE <<Head(s)>> \o DashSpaces(Tail(s))

LowerCase(s) == [i \in 1..Len(s) |-> ToLowerChar(s[i])]

RECURSIVE TrimLeft(_)
TrimLeft(s) == IF s # <<>> /\ IsSpace(Head(s)) THEN TrimLeft(Tail(s)) ELSE s

RECURSIVE TrimRight(_)
TrimRight(s) ==
    IF s # <<>> /\ IsSpace(s[Len(s)]) THEN TrimRight(SubSeq(s, 1, Len(s) - 1)) ELSE s

sanitizeProjectName(name) ==
    TrimRight(TrimLeft(LowerCase(DashSpaces(StripDisallowed(name)))))

Projects == {sanitizeProjectName(n) : n \in RawNames}

(***************************************************************************)
(* Project metadata and the project index.  An index maps every project    *)
(* name to its metadata or to NoMeta (no entry).                           *)
(***************************************************************************)
NoMeta == [present |-> FALSE, status |-> "none", updated |-> 0]

NewMeta(st, t) == [present |-> TRUE, status |-> st, updated |-> t]

EmptyIndex == [n \in Projects |-> NoMeta]

IndexNames(idx) == {n \in Projects : idx[n].present}

(* A file holding an index: absent, complete, or a partial serialization. *)
NoFile == [st |-> "absent", data |-> EmptyIndex]

FullFile(idx) == [st |-> "ok", data |-> idx]

PartialFile == [st |-> "partial", data |-> EmptyIndex]

(* A project directory with its two subdirectories and its project.json. *)
NoDir == [exists |-> FALSE, findings |-> FALSE, audits |-> FALSE,
          json |-> NoMeta, jsonTmp |-> NoMeta]

(* The record files of a project: findings and audit-trail entries.  The    *)
(* id of a record is the random id sanitizeFindingId or sanitizeAuditId    *)
(* gave it.  The content of a file is who wrote it and how.                *)
FindingIds == {"f1", "f2"}

AuditIds == {"a1"}

RecIds == FindingIds \cup AuditIds

NoRec == [by |-> "none", how |-> "none"]

NoRecs == [i \in RecIds |-> NoRec]

Managers == {"A", "B"}

Procs == {"o1", "o2"}

IndexKey == <<"project-index">>

(* The project names the record operations are called with: two spellings  *)
(* of one project.                                                         *)
NamesRecord == {<<"p">>, <<"P">>}

(* `finding-${projectName}-${id}` and `audit-${projectName}-${id}`. *)
RecordKeys ==
    {<<"finding">> \o n \o <<i>> : n \in NamesRecord, i \in FindingIds}
        \cup {<<"audit">> \o n \o <<i>> : n \in NamesRecord, i \in AuditIds}

LockKeys == {IndexKey} \cup RecordKeys

(* A read of .mcp-projects.json that has returned its content to a caller  *)
(* whose continuation has not run yet.                                     *)
NoRead == [pending |-> FALSE, file |-> NoFile]

(* A storage call: its name, its position, its arguments and its locals. *)
IdleProc ==
    [op |-> "idle", pc |-> "idle", m |-> "A", name |-> <<>>, upd |-> "none",
     meta |-> NoMeta, rd |-> NoRead, ser |-> EmptyIndex, orig |-> EmptyIndex,
     wret |-> "none", err |-> "none", at |-> "none", rbErr |-> FALSE,
     res |-> "none", idx0 |-> NoFile, after |-> FALSE, n |-> 0,
     id |-> "none", val |-> NoRecs, by |-> "none", peer |-> FALSE, fresh |-> FALSE]

(***************************************************************************)
(* The processes started on one storage directory, each with the           *)
(* StorageManager whose acquireInstanceLock it calls first.  A path is the *)
(* sequence of its parts.                                                  *)
(***************************************************************************)
Instances == {"i1", "i2"}

workingDir == <<"dir">>

(* path.join(this.workingDir, '.mcp-instance') *)
instanceLockPath == workingDir \o <<".mcp-instance">>

(* The artifact lockfile.lock(file) creates: `${file}.lock`, the name      *)
(* cleanupStaleLocks looks for.                                            *)
getLockFile(file) == file \o <<".lock">>

(* The lock artifact: absent, held and refreshed by its owner, or left     *)
(* behind and no longer refreshed.  The age of an artifact that is not     *)
(* refreshed counts the staleness thresholds it has passed: 1 is older     *)
(* than the 30 s of lockfile.lock, 2 is older than the 60 s of the sweep.  *)
NoArtifact == [st |-> "none", owner |-> "none", path |-> <<>>, age |-> 0]

HeldArtifact(i) ==
    [st |-> "held", owner |-> i, path |-> getLockFile(instanceLockPath), age |-> 0]

(* The error an acquireInstanceLock call threw. *)
NoMsg == [kind |-> "none", dir |-> <<>>, warning |-> FALSE, rm |-> <<>>]

AnotherInstanceError ==
    [kind |-> "another", dir |-> workingDir, warning |-> TRUE,
     rm |-> instanceLockPath \o <<".lock">>]

FailedToAcquireError == [kind |-> "failed", dir |-> <<>>, warning |-> FALSE, rm |-> <<>>]

(* A process that is not running. *)
DownInstance ==
    [pc |-> "down", res |-> NoMsg, since |-> "none", fd |-> "none",
     ser |-> EmptyIndex, rd |-> "none"]

NoInst == [art |-> NoArtifact, mgr |-> [i \in Instances |-> DownInstance]]

(* No listing cache. *)
NoLst == [pc |-> "none"]

(* No record written. *)
NoDoc == [pc |-> "none", kind |-> "none", input |-> <<>>, made |-> <<>>,
          file |-> <<>>, out |-> <<>>]

(* No listFindings call. *)
NoPage == [pc |-> "none", files |-> <<>>, limit |-> 0, offset |-> 0, i |-> 0,
           filesByMtime |-> <<>>, sortedFiles |-> <<>>, out |-> <<>>]


VARIABLES
    now,         \* the clock read by new Date() and Date.now()
    faults,      \* fs failures that may still be injected
    calls,       \* storage calls that may still be started
    indexFile,   \* .mcp-projects.json
    indexTmp,    \* .mcp-projects.json.tmp
    projDir,     \* project name -> its directory
    locks,       \* lock key -> who holds the lock artifact
    cache,       \* manager -> projectIndexCache
    proc,        \* the storage calls in flight
    last,        \* the call that returned last, with its result
    recs,        \* record id -> the record file of the project
    recTmp,      \* record id -> the temporary file next to it
    hist,        \* history: the completion of the project
    inst,        \* the instance lock artifact and the processes on the directory
    page,        \* a listFindings call: its arguments, its locals, its result
    doc,         \* a record written to its file and read back
    lst          \* the listing cache, the files it caches and a list call

vars == <<now, faults, calls, indexFile, indexTmp, projDir, locks, cache, proc, last,
          recs, recTmp, hist, inst, page, doc, lst>>

San(p) == sanitizeProjectName(proc[p].name)

Unloaded == [loaded |-> FALSE, idx |-> EmptyIndex]

(* No updateProject(p, {status: 'completed'}) has happened. *)
NoHist == [done |-> FALSE, frozen |-> FALSE, recs |-> NoRecs, meta |-> NoMeta]

Loaded(idx) == [loaded |-> TRUE, idx |-> idx]

(* The project whose completion the history variable follows: done once a  *)
(* completing updateProject has returned, frozen once the on-disk index    *)
(* says completed, with the record files and the index entry of that       *)
(* moment.  Every action ends with HistNext.                               *)
P0 == sanitizeProjectName(<<"p">>)

IndexCompleted == indexFile.st = "ok" /\ indexFile.data[P0].status = "completed"

HistNext ==
    hist' = [done |-> \/ hist.done
                      \/ /\ last'.n # last.n
                         /\ last'.op = "updateProject"
                         /\ last'.upd = "completed"
                         /\ last'.res = "ok",
             frozen |-> hist.frozen \/ IndexCompleted',
             recs |-> IF hist.frozen THEN hist.recs ELSE recs',
             meta |-> IF hist.frozen THEN hist.meta
                      ELSE IF indexFile'.st = "ok" THEN indexFile'.data[P0] ELSE NoMeta]

(* new Date(): the clock may have advanced since it was last read. *)
Dates == {t \in {now, now + 1} : t <= MaxTime}

(* The record of a call that has returned: its arguments and its result. *)
Returned(r, result) ==
    [IdleProc EXCEPT !.op = r.op, !.pc = "done", !.m = r.m, !.name = r.name,
                     !.upd = r.upd, !.res = result, !.at = r.at, !.rbErr = r.rbErr,
                     !.idx0 = r.idx0, !.after = r.after, !.n = last.n + 1,
                     !.id = r.id, !.val = r.val, !.meta = r.meta, !.fresh = r.fresh]

Set(p, r) == proc' = [proc EXCEPT ![p] = r] /\ last' = last

(* Another createFinding for the same project and finding id is in flight  *)
(* beside p's.                                                             *)
HasPeer(p) ==
    \E q \in Procs \ {p} :
        /\ proc[q].op = proc[p].op
        /\ sanitizeProjectName(proc[q].name) = sanitizeProjectName(proc[p].name)
        /\ proc[q].id = proc[p].id

(* p returns or throws: its slot is free again and last records the call,  *)
(* for a createFinding also who made it and whether it had a peer.         *)
Return(p, r, result) ==
    /\ proc' = [proc EXCEPT ![p] = IdleProc]
    /\ last' = IF r.op = "createFinding"
               THEN [Returned(r, result) EXCEPT !.by = p, !.peer = HasPeer(p)]
               ELSE Returned(r, result)

(***************************************************************************)
(* readProjectIndex.  A caller that finds the snapshot loaded uses it at   *)
(* once.  Otherwise it reads the file (ReadIndexFile) and, when its        *)
(* continuation runs, parses what it read, stores it as the snapshot and   *)
(* goes on with it: that second half is part of the step that consumes the *)
(* index.                                                                  *)
(***************************************************************************)
IndexReadPcs == {"u_get", "u_idx", "c_idx", "d_get", "rc_get", "rc_chk", "rm_getp", "rm_chk",
                 "l_getp"}

ReadIndexFile(p) ==
    /\ proc[p].pc \in IndexReadPcs
    /\ ~proc[p].rd.pending
    /\ ~cache[proc[p].m].loaded
    /\ Set(p, [proc[p] EXCEPT !.rd = [pending |-> TRUE, file |-> indexFile]])
    /\ UNCHANGED <<now, faults, calls, indexFile, indexTmp, projDir, locks, cache>>
    /\ UNCHANGED <<recs, recTmp>>
    /\ HistNext
    /\ UNCHANGED <<inst, page, doc, lst>>

IdxReady(p) == proc[p].rd.pending \/ cache[proc[p].m].loaded

(* JSON.parse throws on a partial serialization. *)
ReadThrows(p) == proc[p].rd.pending /\ proc[p].rd.file.st = "partial"

(* The index readProjectIndex returns to p; an absent file is an empty index. *)
IdxOf(p) ==
    IF proc[p].rd.pending
    THEN IF proc[p].rd.file.st = "ok" THEN proc[p].rd.file.data ELSE EmptyIndex
    ELSE cache[proc[p].m].idx

(* The snapshot of p's manager once p's readProjectIndex has returned. *)
SnapshotAfterRead(p) ==
    IF proc[p].rd.pending /\ ~ReadThrows(p) THEN Loaded(IdxOf(p))
    ELSE cache[proc[p].m]

(***************************************************************************)
(* withLock.  lockfile.lock creates the lock artifact if there is none or  *)
(* the one there is stale; a live holder keeps its artifact fresh.  A      *)
(* caller that finds the lock held retries, and gives up after its retry   *)
(* budget with 'Operation timed out waiting for lock'.                     *)
(***************************************************************************)
LockPcs == {"u_lock", "c_lock", "d_lock", "r_lock"}

ReleasePcs == {"u_rel", "c_rel", "d_rel", "r_rel"}

ProjectOps == {"createProject", "updateProject", "deleteProject"}

CreateOps == {"createFinding", "createAuditTrail"}

RecordOps == CreateOps \cup {"updateFinding", "deleteFinding"}

RecordKey(r) ==
    <<IF r.op = "createAuditTrail" THEN "audit" ELSE "finding">> \o r.name \o <<r.id>>

(* The key of the withLock call p is entering or leaving. *)
KeyOf(p) == IF proc[p].pc \in {"r_lock", "r_rel"} THEN RecordKey(proc[p]) ELSE IndexKey

CanAcquire(k) == locks[k] \in {"free", "stale"}

(* The first step of the operation withLock runs. *)
AfterLock(r) ==
    CASE r.pc = "u_lock" -> [r EXCEPT !.pc = "u_get", !.idx0 = indexFile]
      [] r.pc = "c_lock" -> [r EXCEPT !.pc = "c_access", !.idx0 = indexFile]
      [] r.pc = "d_lock" -> [r EXCEPT !.pc = "d_get", !.idx0 = indexFile]
      [] r.pc = "r_lock" ->
           IF r.op \in CreateOps THEN [r EXCEPT !.pc = "rc_access"]
           ELSE [r EXCEPT !.pc = "rm_getp"]

(* A record operation gets the outcome of its updateProject(projectName,   *)
(* {}): on success it invalidates the listing cache and returns; on an     *)
(* error its catch block runs (deleteFinding's has no await).              *)
AfterBump(r) ==
    IF r.err = "none" THEN [r EXCEPT !.pc = "r_rel"]
    ELSE IF r.op = "deleteFinding" THEN [r EXCEPT !.pc = "r_rel", !.err = "DeleteFailed"]
    ELSE [r EXCEPT !.pc = "r_fail"]

(* p leaves a withLock call: the call was p's operation, or the            *)
(* updateProject inside a record operation.                                *)
Leave(p, r) ==
    IF r.pc \in {"u_lock", "u_rel"} /\ r.op \in RecordOps
    THEN Set(p, AfterBump(r))
    ELSE Return(p, r, IF r.err = "none" THEN "ok" ELSE r.err)

AcquireLockUnguarded(p) ==
    /\ proc[p].pc \in LockPcs
    /\ locks' = [locks EXCEPT ![KeyOf(p)] = p]
    /\ Set(p, AfterLock(proc[p]))
    /\ UNCHANGED <<now, faults, calls, indexFile, indexTmp, projDir, cache>>
    /\ UNCHANGED <<recs, recTmp>>
    /\ HistNext
    /\ UNCHANGED <<inst, page, doc, lst>>

AcquireLock(p) ==
    /\ proc[p].pc \in LockPcs
    /\ CanAcquire(KeyOf(p))
    /\ locks' = [locks EXCEPT ![KeyOf(p)] = p]
    /\ Set(p, AfterLock(proc[p]))
    /\ UNCHANGED <<now, faults, calls, indexFile, indexTmp, projDir, cache>>
    /\ UNCHANGED <<recs, recTmp>>
    /\ HistNext
    /\ UNCHANGED <<inst, page, doc, lst>>

LockTimeout(p) ==
    /\ proc[p].pc \in LockPcs
    /\ ~CanAcquire(KeyOf(p))
    /\ Leave(p, [proc[p] EXCEPT !.err = "LockTimeout"])
    /\ UNCHANGED <<now, faults, calls, indexFile, indexTmp, projDir, locks, cache>>
    /\ UNCHANGED <<recs, recTmp>>
    /\ HistNext
    /\ UNCHANGED <<inst, page, doc, lst>>

(* The finally block of withLock: release, then return or rethrow. *)
ReleaseLock(p) ==
    /\ proc[p].pc \in ReleasePcs
    /\ locks' = [locks EXCEPT ![KeyOf(p)] = IF @ = p THEN "free" ELSE @]
    /\ Leave(p, proc[p])
    /\ UNCHANGED <<now, faults, calls, indexFile, indexTmp, projDir, cache>>
    /\ UNCHANGED <<recs, recTmp>>
    /\ HistNext
    /\ UNCHANGED <<inst, page, doc, lst>>

(***************************************************************************)
(* writeProjectIndex: write the serialization to the temporary file, then  *)
(* rename it over the index and unload the snapshot.  On a failure the     *)
(* temporary file is unlinked and the error is rethrown to the caller,     *)
(* which is named by wret.                                                 *)
(***************************************************************************)
AfterWrite(r, failed) ==
    CASE r.wret = "u" ->
           IF failed THEN [r EXCEPT !.pc = "u_rel", !.err = "UpdateFailed"]
           ELSE [r EXCEPT !.pc = "u_rel"]
      [] r.wret = "c" ->
           IF failed THEN [r EXCEPT !.pc = "c_rb", !.err = "CreateFailed", !.at = "index"]
           ELSE [r EXCEPT !.pc = "c_rel"]
      [] r.wret = "d" ->
           IF failed
           THEN [r EXCEPT !.pc = "w_open", !.wret = "dr", !.ser = r.orig,
                          !.err = "DeleteFailed"]
           ELSE [r EXCEPT !.pc = "d_rm"]
      [] r.wret = "dr" -> [r EXCEPT !.pc = "d_rel"]

WriteIndexOpen(p) ==
    /\ proc[p].pc = "w_open"
    /\ indexTmp' = PartialFile
    /\ Set(p, [proc[p] EXCEPT !.pc = "w_write"])
    /\ UNCHANGED <<now, faults, calls, indexFile, projDir, locks, cache>>
    /\ UNCHANGED <<recs, recTmp>>
    /\ HistNext
    /\ UNCHANGED <<inst, page, doc, lst>>

WriteIndexData(p) ==
    /\ proc[p].pc = "w_write"
    /\ indexTmp' = FullFile(proc[p].ser)
    /\ Set(p, [proc[p] EXCEPT !.pc = "w_ren"])
    /\ UNCHANGED <<now, faults, calls, indexFile, projDir, locks, cache>>
    /\ UNCHANGED <<recs, recTmp>>
    /\ HistNext
    /\ UNCHANGED <<inst, page, doc, lst>>

RenameIndex(p) ==
    /\ indexFile' = indexTmp
    /\ indexTmp' = NoFile
    /\ cache' = [cache EXCEPT ![proc[p].m] = Unloaded]
    /\ Set(p, AfterWrite(proc[p], FALSE))

WriteIndexRename(p) ==
    /\ proc[p].pc = "w_ren"
    /\ indexTmp.st # "absent"
    /\ RenameIndex(p)
    /\ UNCHANGED <<now, faults, calls, projDir, locks>>
    /\ UNCHANGED <<recs, recTmp>>
    /\ HistNext
    /\ UNCHANGED <<inst, page, doc, lst>>

(* An fs call of writeProjectIndex fails: unlink the temporary file, rethrow. *)
WriteIndexFail(p) ==
    /\ proc[p].pc \in {"w_open", "w_write", "w_ren"}
    /\ faults > 0
    /\ faults' = faults - 1
    /\ indexTmp' = NoFile
    /\ cache' = IF proc[p].wret = "dr"
                THEN [cache EXCEPT ![proc[p].m] = Unloaded] ELSE cache
    /\ Set(p, AfterWrite(proc[p], TRUE))
    /\ UNCHANGED <<now, calls, indexFile, projDir, locks>>
    /\ UNCHANGED <<recs, recTmp>>
    /\ HistNext
    /\ UNCHANGED <<inst, page, doc, lst>>

(***************************************************************************)
(* updateProject(projectName, updates)                                     *)
(***************************************************************************)
StartUpdateProject(p, m, n, u) ==
    /\ proc[p].pc = "idle"
    /\ calls > 0
    /\ calls' = calls - 1
    /\ Set(p, [IdleProc EXCEPT !.op = "updateProject", !.pc = "u_lock", !.m = m,
                               !.name = n, !.upd = u, !.after = hist.done])
    /\ UNCHANGED <<now, faults, indexFile, indexTmp, projDir, locks, cache>>
    /\ UNCHANGED <<recs, recTmp>>
    /\ HistNext
    /\ UNCHANGED <<inst, page, doc, lst>>

(* getProject, the completed check and the new metadata. *)
updateProject_get(p) ==
    /\ proc[p].pc = "u_get"
    /\ IdxReady(p)
    /\ cache' = [cache EXCEPT ![proc[p].m] = SnapshotAfterRead(p)]
    /\ LET r == [proc[p] EXCEPT !.rd = NoRead]
           old == IdxOf(p)[San(p)]
       IN IF ReadThrows(p)
          THEN Set(p, [r EXCEPT !.pc = "u_rel", !.err = "ReadIndexFailed"]) /\ now' = now
          ELSE IF ~old.present
          THEN Set(p, [r EXCEPT !.pc = "u_rel", !.err = "ProjectNotFound"]) /\ now' = now
          ELSE IF old.status = "completed"
          THEN Set(p, [r EXCEPT !.pc = "u_rel", !.err = "ProjectCompleted"]) /\ now' = now
          ELSE \E t \in Dates :
                 /\ now' = t
                 /\ Set(p, [r EXCEPT !.pc = "u_wtmp",
                                     !.meta = NewMeta(IF r.upd = "none" THEN old.status
                                                      ELSE r.upd, t)])
    /\ UNCHANGED <<faults, calls, indexFile, indexTmp, projDir, locks>>
    /\ UNCHANGED <<recs, recTmp>>
    /\ HistNext
    /\ UNCHANGED <<inst, page, doc, lst>>

(* fs.writeFile(tempFile): ENOENT when the project directory is gone. *)
updateProject_writeTemp(p) ==
    /\ proc[p].pc = "u_wtmp"
    /\ IF projDir[San(p)].exists
       THEN /\ projDir' = [projDir EXCEPT ![San(p)].jsonTmp = proc[p].meta]
            /\ Set(p, [proc[p] EXCEPT !.pc = "u_ren"])
       ELSE /\ projDir' = projDir
            /\ Set(p, [proc[p] EXCEPT !.pc = "u_rel", !.err = "UpdateFailed"])
    /\ UNCHANGED <<now, faults, calls, indexFile, indexTmp, locks, cache>>
    /\ UNCHANGED <<recs, recTmp>>
    /\ HistNext
    /\ UNCHANGED <<inst, page, doc, lst>>

updateProject_rename(p) ==
    /\ proc[p].pc = "u_ren"
    /\ projDir' = [projDir EXCEPT ![San(p)].json = projDir[San(p)].jsonTmp,
                                  ![San(p)].jsonTmp = NoMeta]
    /\ Set(p, [proc[p] EXCEPT !.pc = "u_idx"])
    /\ UNCHANGED <<now, faults, calls, indexFile, indexTmp, locks, cache>>
    /\ UNCHANGED <<recs, recTmp>>
    /\ HistNext
    /\ UNCHANGED <<inst, page, doc, lst>>

(* readProjectIndex, index.projects.set on the object it returned (the     *)
(* snapshot itself), and the serialization writeProjectIndex starts with.  *)
updateProject_setIndex(p) ==
    /\ proc[p].pc = "u_idx"
    /\ IdxReady(p)
    /\ LET r == [proc[p] EXCEPT !.rd = NoRead]
           idx == [IdxOf(p) EXCEPT ![San(p)] = r.meta]
       IN IF ReadThrows(p)
          THEN /\ cache' = cache
               /\ Set(p, [r EXCEPT !.pc = "u_rel", !.err = "UpdateFailed"])
          ELSE /\ cache' = [cache EXCEPT ![r.m] = Loaded(idx)]
               /\ Set(p, [r EXCEPT !.pc = "w_open", !.wret = "u", !.ser = idx])
    /\ UNCHANGED <<now, faults, calls, indexFile, indexTmp, projDir, locks>>
    /\ UNCHANGED <<recs, recTmp>>
    /\ HistNext
    /\ UNCHANGED <<inst, page, doc, lst>>

(* writeFile or rename of project.json fails: unlink the temp file, rethrow. *)
updateProject_fail(p) ==
    /\ proc[p].pc \in {"u_wtmp", "u_ren"}
    /\ faults > 0
    /\ faults' = faults - 1
    /\ projDir' = [projDir EXCEPT ![San(p)].jsonTmp = NoMeta]
    /\ Set(p, [proc[p] EXCEPT !.pc = "u_rel", !.err = "UpdateFailed"])
    /\ UNCHANGED <<now, calls, indexFile, indexTmp, locks, cache>>
    /\ UNCHANGED <<recs, recTmp>>
    /\ HistNext
    /\ UNCHANGED <<inst, page, doc, lst>>

(***************************************************************************)
(* createProject(input) and executeProjectCreationTransaction              *)
(***************************************************************************)
StartCreateProject(p, m, n) ==
    /\ proc[p].pc = "idle"
    /\ calls > 0
    /\ calls' = calls - 1
    /\ LET r == [IdleProc EXCEPT !.op = "createProject", !.pc = "c_lock", !.m = m,
                                 !.name = n]
       IN IF sanitizeProjectName(n) = <<>>
          THEN Return(p, r, "InvalidProjectName")
          ELSE Set(p, r)
    /\ UNCHANGED <<now, faults, indexFile, indexTmp, projDir, locks, cache>>
    /\ UNCHANGED <<recs, recTmp>>
    /\ HistNext
    /\ UNCHANGED <<inst, page, doc, lst>>

(* fs.access(projectPath), then the metadata of the new project. *)
createProject_access(p) ==
    /\ proc[p].pc = "c_access"
    /\ IF projDir[San(p)].exists
       THEN /\ Set(p, [proc[p] EXCEPT !.pc = "c_rel", !.err = "ProjectExists"])
            /\ now' = now
       ELSE \E t \in Dates :
              /\ now' = t
              /\ Set(p, [proc[p] EXCEPT !.pc = "c_mkdir",
                                        !.meta = NewMeta("in-progress", t)])
    /\ UNCHANGED <<faults, calls, indexFile, indexTmp, projDir, locks, cache>>
    /\ UNCHANGED <<recs, recTmp>>
    /\ HistNext
    /\ UNCHANGED <<inst, page, doc, lst>>

(* Step 1: the project directory; its removal becomes the first undo action. *)
createProject_mkdir(p) ==
    /\ proc[p].pc = "c_mkdir"
    /\ projDir' = [projDir EXCEPT ![San(p)].exists = TRUE]
    /\ Set(p, [proc[p] EXCEPT !.pc = "c_mkf"])
    /\ UNCHANGED <<now, faults, calls, indexFile, indexTmp, locks, cache>>
    /\ UNCHANGED <<recs, recTmp>>
    /\ HistNext
    /\ UNCHANGED <<inst, page, doc, lst>>

createProject_mkdirFindings(p) ==
    /\ proc[p].pc = "c_mkf"
    /\ projDir' = [projDir EXCEPT ![San(p)].findings = TRUE]
    /\ Set(p, [proc[p] EXCEPT !.pc = "c_mka"])
    /\ UNCHANGED <<now, faults, calls, indexFile, indexTmp, locks, cache>>
    /\ UNCHANGED <<recs, recTmp>>
    /\ HistNext
    /\ UNCHANGED <<inst, page, doc, lst>>

createProject_mkdirAudits(p) ==
    /\ proc[p].pc = "c_mka"
    /\ projDir' = [projDir EXCEPT ![San(p)].audits = TRUE]
    /\ Set(p, [proc[p] EXCEPT !.pc = "c_wtmp"])
    /\ UNCHANGED <<now, faults, calls, indexFile, indexTmp, locks, cache>>
    /\ UNCHANGED <<recs, recTmp>>
    /\ HistNext
    /\ UNCHANGED <<inst, page, doc, lst>>

(* Step 2: project.json, through its temporary file. *)
createProject_writeTemp(p) ==
    /\ proc[p].pc = "c_wtmp"
    /\ projDir' = [projDir EXCEPT ![San(p)].jsonTmp = proc[p].meta]
    /\ Set(p, [proc[p] EXCEPT !.pc = "c_ren"])
    /\ UNCHANGED <<now, faults, calls, indexFile, indexTmp, locks, cache>>
    /\ UNCHANGED <<recs, recTmp>>
    /\ HistNext
    /\ UNCHANGED <<inst, page, doc, lst>>

createProject_rename(p) ==
    /\ proc[p].pc = "c_ren"
    /\ projDir' = [projDir EXCEPT ![San(p)].json = projDir[San(p)].jsonTmp,
                                  ![San(p)].jsonTmp = NoMeta]
    /\ Set(p, [proc[p] EXCEPT !.pc = "c_idx"])
    /\ UNCHANGED <<now, faults, calls, indexFile, indexTmp, locks, cache>>
    /\ UNCHANGED <<recs, recTmp>>
    /\ HistNext
    /\ UNCHANGED <<inst, page, doc, lst>>

(* Steps 3 and 4: originalIndexState is what readProjectIndex returns; the *)
(* new index is a copy of it with the project set.  The undo action that   *)
(* restores the index is pushed as not completed.                          *)
createProject_newIndex(p) ==
    /\ proc[p].pc = "c_idx"
    /\ IdxReady(p)
    /\ cache' = [cache EXCEPT ![proc[p].m] = SnapshotAfterRead(p)]
    /\ LET r == [proc[p] EXCEPT !.rd = NoRead]
       IN IF ReadThrows(p)
          THEN Set(p, [r EXCEPT !.pc = "c_rb", !.err = "CreateFailed", !.at = "read"])
          ELSE Set(p, [r EXCEPT !.pc = "w_open", !.wret = "c", !.orig = IdxOf(p),
                               !.ser = [IdxOf(p) EXCEPT ![San(p)] = r.meta]])
    /\ UNCHANGED <<now, faults, calls, indexFile, indexTmp, projDir, locks>>
    /\ UNCHANGED <<recs, recTmp>>
    /\ HistNext
    /\ UNCHANGED <<inst, page, doc, lst>>

(* A step of the transaction fails.  mkdir of the project directory has no *)
(* undo action yet; the later steps roll back.                             *)
createProject_fail(p) ==
    /\ proc[p].pc \in {"c_mkdir", "c_mkf", "c_mka", "c_wtmp", "c_ren"}
    /\ faults > 0
    /\ faults' = faults - 1
    /\ IF proc[p].pc = "c_mkdir"
       THEN /\ cache' = [cache EXCEPT ![proc[p].m] = Unloaded]
            /\ Set(p, [proc[p] EXCEPT !.pc = "c_rel", !.err = "CreateFailed", !.at = "dir"])
       ELSE /\ cache' = cache
            /\ Set(p, [proc[p] EXCEPT !.pc = "c_rb", !.err = "CreateFailed", !.at = "dir"])
    /\ UNCHANGED <<now, calls, indexFile, indexTmp, projDir, locks>>
    /\ UNCHANGED <<recs, recTmp>>
    /\ HistNext
    /\ UNCHANGED <<inst, page, doc, lst>>

(* The rollback: the undo actions that are completed run in reverse order. *)
(* The index restore is completed only after writeProjectIndex(newIndex)   *)
(* has returned, and nothing after that throws, so the one undo action     *)
(* that ever runs is the removal of the directory.  Then the snapshot is   *)
(* unloaded.                                                               *)
createProject_rollbackKeepsDirectory(p) ==
    /\ proc[p].pc = "c_rb"
    /\ cache' = [cache EXCEPT ![proc[p].m] = Unloaded]
    /\ Set(p, [proc[p] EXCEPT !.pc = "c_rel"])
    /\ UNCHANGED <<now, faults, calls, indexFile, indexTmp, projDir, locks>>
    /\ UNCHANGED <<recs, recTmp>>
    /\ HistNext
    /\ UNCHANGED <<inst, page, doc, lst>>

createProject_rollback(p) ==
    /\ proc[p].pc = "c_rb"
    /\ projDir' = [projDir EXCEPT ![San(p)] = NoDir]
    /\ cache' = [cache EXCEPT ![proc[p].m] = Unloaded]
    /\ Set(p, [proc[p] EXCEPT !.pc = "c_rel"])
    /\ UNCHANGED <<now, faults, calls, indexFile, indexTmp, locks>>
    /\ UNCHANGED <<recs, recTmp>>
    /\ HistNext
    /\ UNCHANGED <<inst, page, doc, lst>>

(* fs.rm of the rollback fails: recorded, appended to the error. *)
createProject_rollbackFail(p) ==
    /\ proc[p].pc = "c_rb"
    /\ faults > 0
    /\ faults' = faults - 1
    /\ cache' = [cache EXCEPT ![proc[p].m] = Unloaded]
    /\ Set(p, [proc[p] EXCEPT !.pc = "c_rel", !.rbErr = TRUE])
    /\ UNCHANGED <<now, calls, indexFile, indexTmp, projDir, locks>>
    /\ UNCHANGED <<recs, recTmp>>
    /\ HistNext
    /\ UNCHANGED <<inst, page, doc, lst>>

(***************************************************************************)
(* deleteProject(projectName)                                              *)
(***************************************************************************)
StartDeleteProject(p, m, n) ==
    /\ proc[p].pc = "idle"
    /\ calls > 0
    /\ calls' = calls - 1
    /\ Set(p, [IdleProc EXCEPT !.op = "deleteProject", !.pc = "d_lock", !.m = m,
                               !.name = n, !.after = hist.done])
    /\ UNCHANGED <<now, faults, indexFile, indexTmp, projDir, locks, cache>>
    /\ UNCHANGED <<recs, recTmp>>
    /\ HistNext
    /\ UNCHANGED <<inst, page, doc, lst>>

(* getProject, checkProjectNotCompleted, originalIndex and the index       *)
(* without the project: three reads of the snapshot the first one loaded.  *)
deleteProject_get(p) ==
    /\ proc[p].pc = "d_get"
    /\ IdxReady(p)
    /\ cache' = [cache EXCEPT ![proc[p].m] = SnapshotAfterRead(p)]
    /\ LET r == [proc[p] EXCEPT !.rd = NoRead]
           old == IdxOf(p)[San(p)]
       IN IF ReadThrows(p)
          THEN Set(p, [r EXCEPT !.pc = "d_rel", !.err = "ReadIndexFailed"])
          ELSE IF ~old.present
          THEN Set(p, [r EXCEPT !.pc = "d_rel", !.err = "ProjectNotFound"])
          ELSE IF old.status = "completed"
          THEN Set(p, [r EXCEPT !.pc = "d_rel", !.err = "ProjectCompleted"])
          ELSE Set(p, [r EXCEPT !.pc = "w_open", !.wret = "d", !.orig = IdxOf(p),
                               !.ser = [IdxOf(p) EXCEPT ![San(p)] = NoMeta]])
    /\ UNCHANGED <<now, faults, calls, indexFile, indexTmp, projDir, locks>>
    /\ UNCHANGED <<recs, recTmp>>
    /\ HistNext
    /\ UNCHANGED <<inst, page, doc, lst>>

(* Step 2: fs.rm(projectPath, {recursive, force}). *)
deleteProject_rm(p) ==
    /\ proc[p].pc = "d_rm"
    /\ projDir' = [projDir EXCEPT ![San(p)] = NoDir]
    /\ Set(p, [proc[p] EXCEPT !.pc = "d_rel"])
    /\ UNCHANGED <<now, faults, calls, indexFile, indexTmp, locks, cache>>
    /\ UNCHANGED <<recs, recTmp>>
    /\ HistNext
    /\ UNCHANGED <<inst, page, doc, lst>>

(* fs.rm fails; the catch block starts writeProjectIndex(originalIndex). *)
deleteProject_rmFail(p) ==
    /\ proc[p].pc = "d_rm"
    /\ faults > 0
    /\ faults' = faults - 1
    /\ Set(p, [proc[p] EXCEPT !.pc = "w_open", !.wret = "dr", !.ser = proc[p].orig,
                              !.err = "DeleteFailed"])
    /\ UNCHANGED <<now, calls, indexFile, indexTmp, projDir, locks, cache>>
    /\ UNCHANGED <<recs, recTmp>>
    /\ HistNext
    /\ UNCHANGED <<inst, page, doc, lst>>

(***************************************************************************)
(* The project operations of the managers of one process on one directory  *)
(* whose index has been initialized.  A manager that has served a read     *)
(* (listProjects, getProject) starts with the index as its snapshot.       *)
(***************************************************************************)
InitProject ==
    /\ now = 0
    /\ faults = MaxFaults
    /\ calls = MaxCalls
    /\ indexFile = FullFile(EmptyIndex)
    /\ indexTmp = NoFile
    /\ projDir = [n \in Projects |-> NoDir]
    /\ locks = [k \in LockKeys |-> "free"]
    /\ cache \in [Managers -> {Unloaded, Loaded(EmptyIndex)}]
    /\ proc = [p \in Procs |-> IdleProc]
    /\ last = IdleProc
    /\ recs = NoRecs
    /\ recTmp = NoRecs
    /\ hist = NoHist
    /\ inst = NoInst
    /\ page = NoPage
    /\ doc = NoDoc
    /\ lst = NoLst

NamesProject == {<<"P">>, <<"q">>}

(* The steps that inject no fs failure. *)
StepProject(p) ==
    \/ \E m \in Managers, n \in NamesProject : StartCreateProject(p, m, n)
    \/ \E m \in Managers, n \in NamesProject, u \in {"none", "completed"} :
           StartUpdateProject(p, m, n, u)
    \/ \E m \in Managers, n \in NamesProject : StartDeleteProject(p, m, n)
    \/ ReadIndexFile(p)
    \/ AcquireLock(p)
    \/ LockTimeout(p)
    \/ ReleaseLock(p)
    \/ WriteIndexOpen(p)
    \/ WriteIndexData(p)
    \/ WriteIndexRename(p)
    \/ updateProject_get(p)
    \/ updateProject_writeTemp(p)
    \/ updateProject_rename(p)
    \/ updateProject_setIndex(p)
    \/ createProject_access(p)
    \/ createProject_mkdir(p)
    \/ createProject_mkdirFindings(p)
    \/ createProject_mkdirAudits(p)
    \/ createProject_writeTemp(p)
    \/ createProject_rename(p)
    \/ createProject_newIndex(p)
    \/ deleteProject_get(p)
    \/ deleteProject_rm(p)

(* The steps at which an fs call fails. *)
FailProject(p) ==
    \/ WriteIndexFail(p)
    \/ updateProject_fail(p)
    \/ createProject_fail(p)
    \/ createProject_rollback(p)
    \/ createProject_rollbackFail(p)
    \/ deleteProject_rmFail(p)

NextProject == \E p \in Procs : StepProject(p) \/ FailProject(p)

SpecProject == InitProject /\ [][NextProject]_vars

(* The same operations on a file system that never fails. *)
NextProjectOk == \E p \in Procs : StepProject(p)

SpecProjectOk == InitProject /\ [][NextProjectOk]_vars

(***************************************************************************)
(* Properties of the project operations.                                   *)
(***************************************************************************)
Dirs == {n \in Projects : projDir[n].exists}

(* last' is the record of a createProject that failed writing the index. *)
CreateFailedAtIndexWrite ==
    /\ last'.n # last.n
    /\ last'.op = "createProject"
    /\ last'.at = "index"

(* C7, as stated: when a createProject that failed at the index-write step *)
(* returns, the project directory does not exist and the on-disk index is  *)
(* what it was when the call took the index lock.                          *)
C7_RollbackCompleteAsStated ==
    [][CreateFailedAtIndexWrite =>
         /\ projDir'[sanitizeProjectName(last'.name)] = NoDir
         /\ indexFile' = last'.idx0]_vars

(* C7, amended: the index is unchanged in every case, and the directory is *)
(* gone unless the undo action that removes it failed itself.              *)
C7_RollbackComplete ==
    [][CreateFailedAtIndexWrite =>
         /\ indexFile' = last'.idx0
         /\ (~last'.rbErr => projDir'[sanitizeProjectName(last'.name)] = NoDir)]_vars

C7_Witness ==
    /\ last.op = "createProject"
    /\ last.at = "index"
    /\ last.res = "CreateFailed"
    /\ ~last.rbErr
    /\ projDir[sanitizeProjectName(last.name)] = NoDir
    /\ indexFile = last.idx0

(* C8: whenever no createProject or deleteProject is in progress, the      *)
(* project names of the on-disk index are the project directories on disk. *)
C8_IndexMatchesDirs ==
    (\A p \in Procs : proc[p].op \notin {"createProject", "deleteProject"})
        => /\ indexFile.st = "ok"
           /\ IndexNames(indexFile.data) = Dirs

(***************************************************************************)
(* The record operations.  getProject and checkProjectNotCompleted read    *)
(* the index through readProjectIndex; the record files are read and       *)
(* written directly.  invalidateCache touches the listing cache only and   *)
(* is no step of this model.                                               *)
(***************************************************************************)
Content(p) ==
    [by |-> p, how |-> IF proc[p].op = "updateFinding" THEN "update" ELSE "create"]

StartRecordOp(p, o, m, n, i) ==
    /\ proc[p].pc = "idle"
    /\ calls > 0
    /\ calls' = calls - 1
    /\ Set(p, [IdleProc EXCEPT !.op = o, !.m = m, !.name = n, !.id = i,
                               !.after = hist.done,
                               !.fresh = (o = "createFinding" /\ recs[i] = NoRec),
                               !.pc = CASE o \in CreateOps -> "rc_get"
                                        [] o \in {"updateFinding", "deleteFinding"} -> "r_lock"
                                        [] o \in {"listFindings", "listAuditTrails"} -> "l_getp"
                                        [] OTHER -> "rm_getp"])
    /\ UNCHANGED <<now, faults, indexFile, indexTmp, projDir, locks, cache, recs, recTmp>>
    /\ HistNext
    /\ UNCHANGED <<inst, page, doc, lst>>

(* createFinding and createAuditTrail: await this.getProject(projectName). *)
createFinding_getProject(p) ==
    /\ proc[p].pc = "rc_get"
    /\ IdxReady(p)
    /\ cache' = [cache EXCEPT ![proc[p].m] = SnapshotAfterRead(p)]
    /\ LET r == [proc[p] EXCEPT !.rd = NoRead]
       IN IF ReadThrows(p) THEN Return(p, r, "ReadIndexFailed")
          ELSE IF ~IdxOf(p)[San(p)].present THEN Return(p, r, "ProjectNotFound")
          ELSE Set(p, [r EXCEPT !.pc = "rc_chk"])
    /\ UNCHANGED <<now, faults, calls, indexFile, indexTmp, projDir, locks, recs, recTmp>>
    /\ HistNext
    /\ UNCHANGED <<inst, page, doc, lst>>

(* await this.checkProjectNotCompleted(projectName, ...), before the lock. *)
createFinding_check(p) ==
    /\ proc[p].pc = "rc_chk"
    /\ IdxReady(p)
    /\ cache' = [cache EXCEPT ![proc[p].m] = SnapshotAfterRead(p)]
    /\ LET r == [proc[p] EXCEPT !.rd = NoRead]
       IN IF ReadThrows(p) THEN Return(p, r, "ReadIndexFailed")
          ELSE IF ~IdxOf(p)[San(p)].present THEN Return(p, r, "ProjectNotFound")
          ELSE IF IdxOf(p)[San(p)].status = "completed"
          THEN Return(p, r, "ProjectCompleted")
          ELSE Set(p, [r EXCEPT !.pc = "r_lock"])
    /\ UNCHANGED <<now, faults, calls, indexFile, indexTmp, projDir, locks, recs, recTmp>>
    /\ HistNext
    /\ UNCHANGED <<inst, page, doc, lst>>

(* fs.access(findingPath): the path is built from the sanitized name. *)
createFinding_access(p) ==
    /\ proc[p].pc = "rc_access"
    /\ IF recs[proc[p].id] # NoRec
       THEN Set(p, [proc[p] EXCEPT !.pc = "r_rel", !.err = "AlreadyExists"])
       ELSE IF proc[p].op = "createAuditTrail"
       THEN Set(p, [proc[p] EXCEPT !.pc = "rc_mkdir"])
       ELSE Set(p, [proc[p] EXCEPT !.pc = "rc_wtmp"])
    /\ UNCHANGED <<now, faults, calls, indexFile, indexTmp, projDir, locks, cache,
                   recs, recTmp>>
    /\ HistNext
    /\ UNCHANGED <<inst, page, doc, lst>>

(* createAuditTrail: ensureDirectoryExists(<project>/audit-trails). *)
createAuditTrail_ensureDirectory(p) ==
    /\ proc[p].pc = "rc_mkdir"
    /\ projDir' = [projDir EXCEPT ![San(p)].exists = TRUE, ![San(p)].audits = TRUE]
    /\ Set(p, [proc[p] EXCEPT !.pc = "rc_wtmp"])
    /\ UNCHANGED <<now, faults, calls, indexFile, indexTmp, locks, cache, recs, recTmp>>
    /\ HistNext
    /\ UNCHANGED <<inst, page, doc, lst>>

(* fs.writeFile(tempPath, content), of a create and of updateFinding. *)
writeRecord_temp(p) ==
    /\ proc[p].pc = "rc_wtmp"
    /\ recTmp' = [recTmp EXCEPT ![proc[p].id] = Content(p)]
    /\ Set(p, [proc[p] EXCEPT !.pc = "rc_ren"])
    /\ UNCHANGED <<now, faults, calls, indexFile, indexTmp, projDir, locks, cache, recs>>
    /\ HistNext
    /\ UNCHANGED <<inst, page, doc, lst>>

(* fs.rename(tempPath, path), ENOENT if the temporary file is gone; then   *)
(* this.updateProject(projectName, {}) starts.                             *)
writeRecord_rename(p) ==
    /\ proc[p].pc = "rc_ren"
    /\ IF recTmp[proc[p].id] = NoRec
       THEN /\ UNCHANGED <<recs, recTmp>>
            /\ Set(p, [proc[p] EXCEPT !.pc = "r_fail", !.err = "ENOENT"])
       ELSE /\ recs' = [recs EXCEPT ![proc[p].id] = recTmp[proc[p].id]]
            /\ recTmp' = [recTmp EXCEPT ![proc[p].id] = NoRec]
            /\ Set(p, [proc[p] EXCEPT !.pc = "u_lock", !.upd = "none"])
    /\ UNCHANGED <<now, faults, calls, indexFile, indexTmp, projDir, locks, cache>>
    /\ HistNext
    /\ UNCHANGED <<inst, page, doc, lst>>

(* The catch block of a create or of updateFinding: unlink the temporary   *)
(* file, throw 'Failed to ...'.                                            *)
writeRecord_catch(p) ==
    /\ proc[p].pc = "r_fail"
    /\ recTmp' = [recTmp EXCEPT ![proc[p].id] = NoRec]
    /\ Set(p, [proc[p] EXCEPT !.pc = "r_rel",
                              !.err = IF proc[p].op = "updateFinding" THEN "UpdateFailed"
                                      ELSE "CreateFailed"])
    /\ UNCHANGED <<now, faults, calls, indexFile, indexTmp, projDir, locks, cache, recs>>
    /\ HistNext
    /\ UNCHANGED <<inst, page, doc, lst>>

(* getFinding and getAuditTrail, called by a client or by updateFinding    *)
(* and deleteFinding under their lock: await this.getProject(projectName). *)
getFinding_getProject(p) ==
    /\ proc[p].pc = "rm_getp"
    /\ IdxReady(p)
    /\ cache' = [cache EXCEPT ![proc[p].m] = SnapshotAfterRead(p)]
    /\ LET r == [proc[p] EXCEPT !.rd = NoRead]
           e == IF ReadThrows(p) THEN "ReadIndexFailed" ELSE "ProjectNotFound"
       IN IF ReadThrows(p) \/ ~IdxOf(p)[San(p)].present
          THEN IF r.op \in RecordOps
               THEN Set(p, [r EXCEPT !.pc = "r_rel", !.err = e])
               ELSE Return(p, r, e)
          ELSE IF r.op = "getProject"
          THEN Return(p, [r EXCEPT !.meta = IdxOf(p)[San(p)]], "ok")
          ELSE Set(p, [r EXCEPT !.pc = "rm_read"])
    /\ UNCHANGED <<now, faults, calls, indexFile, indexTmp, projDir, locks, recs, recTmp>>
    /\ HistNext
    /\ UNCHANGED <<inst, page, doc, lst>>

(* fs.readFile(findingPath): FindingNotFoundError on ENOENT. *)
getFinding_readFile(p) ==
    /\ proc[p].pc = "rm_read"
    /\ LET r == [proc[p] EXCEPT !.val = [NoRecs EXCEPT ![proc[p].id] = recs[proc[p].id]]]
       IN IF recs[r.id] = NoRec
          THEN IF r.op \in RecordOps
               THEN Set(p, [r EXCEPT !.pc = "r_rel", !.err = "RecordNotFound"])
               ELSE Return(p, r, "RecordNotFound")
          ELSE IF r.op \in RecordOps
          THEN Set(p, [r EXCEPT !.pc = "rm_chk"])
          ELSE Return(p, r, "ok")
    /\ UNCHANGED <<now, faults, calls, indexFile, indexTmp, projDir, locks, cache,
                   recs, recTmp>>
    /\ HistNext
    /\ UNCHANGED <<inst, page, doc, lst>>

(* updateFinding and deleteFinding: checkProjectNotCompleted, under the    *)
(* record lock and after getFinding.                                       *)
updateFinding_check(p) ==
    /\ proc[p].pc = "rm_chk"
    /\ IdxReady(p)
    /\ cache' = [cache EXCEPT ![proc[p].m] = SnapshotAfterRead(p)]
    /\ LET r == [proc[p] EXCEPT !.rd = NoRead, !.val = NoRecs]
       IN IF ReadThrows(p)
          THEN Set(p, [r EXCEPT !.pc = "r_rel", !.err = "ReadIndexFailed"])
          ELSE IF ~IdxOf(p)[San(p)].present
          THEN Set(p, [r EXCEPT !.pc = "r_rel", !.err = "ProjectNotFound"])
          ELSE IF IdxOf(p)[San(p)].status = "completed"
          THEN Set(p, [r EXCEPT !.pc = "r_rel", !.err = "ProjectCompleted"])
          ELSE Set(p, [r EXCEPT !.pc = IF r.op = "deleteFinding" THEN "rd_unlink"
                                       ELSE "rc_wtmp"])
    /\ UNCHANGED <<now, faults, calls, indexFile, indexTmp, projDir, locks, recs, recTmp>>
    /\ HistNext
    /\ UNCHANGED <<inst, page, doc, lst>>

(* deleteFinding: fs.unlink(findingPath), then the timestamp bump. *)
deleteFinding_unlink(p) ==
    /\ proc[p].pc = "rd_unlink"
    /\ IF recs[proc[p].id] = NoRec
       THEN /\ recs' = recs
            /\ Set(p, [proc[p] EXCEPT !.pc = "r_rel", !.err = "DeleteFailed"])
       ELSE /\ recs' = [recs EXCEPT ![proc[p].id] = NoRec]
            /\ Set(p, [proc[p] EXCEPT !.pc = "u_lock", !.upd = "none"])
    /\ UNCHANGED <<now, faults, calls, indexFile, indexTmp, projDir, locks, cache, recTmp>>
    /\ HistNext
    /\ UNCHANGED <<inst, page, doc, lst>>

(* listFindings and listAuditTrails: getProject, then the directory is     *)
(* enumerated, then the files of the page are read; a file that has gone   *)
(* meanwhile is skipped.                                                   *)
KindIds(o) == IF o = "listAuditTrails" THEN AuditIds ELSE FindingIds

listFindings_getProject(p) ==
    /\ proc[p].pc = "l_getp"
    /\ IdxReady(p)
    /\ cache' = [cache EXCEPT ![proc[p].m] = SnapshotAfterRead(p)]
    /\ LET r == [proc[p] EXCEPT !.rd = NoRead]
       IN IF ReadThrows(p) THEN Return(p, r, "ReadIndexFailed")
          ELSE IF ~IdxOf(p)[San(p)].present THEN Return(p, r, "ProjectNotFound")
          ELSE Set(p, [r EXCEPT !.pc = "l_dir"])
    /\ UNCHANGED <<now, faults, calls, indexFile, indexTmp, projDir, locks, recs, recTmp>>
    /\ HistNext
    /\ UNCHANGED <<inst, page, doc, lst>>

listFindings_readdir(p) ==
    /\ proc[p].pc = "l_dir"
    /\ Set(p, [proc[p] EXCEPT !.pc = "l_read",
                              !.val = [i \in RecIds |->
                                         IF i \in KindIds(proc[p].op) THEN recs[i]
                                         ELSE NoRec]])
    /\ UNCHANGED <<now, faults, calls, indexFile, indexTmp, projDir, locks, cache,
                   recs, recTmp>>
    /\ HistNext
    /\ UNCHANGED <<inst, page, doc, lst>>

listFindings_readFiles(p) ==
    /\ proc[p].pc = "l_read"
    /\ Return(p, [proc[p] EXCEPT !.val = [i \in RecIds |->
                                            IF proc[p].val[i] # NoRec THEN recs[i]
                                            ELSE NoRec]], "ok")
    /\ UNCHANGED <<now, faults, calls, indexFile, indexTmp, projDir, locks, cache,
                   recs, recTmp>>
    /\ HistNext
    /\ UNCHANGED <<inst, page, doc, lst>>

(***************************************************************************)
(* The record operations and updateProject on one project that exists,     *)
(* with one finding in it, on a file system that never fails.  The history *)
(* variable follows the completion of the project: done once a completing  *)
(* updateProject has returned, frozen once the on-disk index says          *)
(* completed, with the record files and the index entry of that moment.    *)
(***************************************************************************)
Meta0 == NewMeta("in-progress", 0)

Index0 == [EmptyIndex EXCEPT ![P0] = Meta0]

Recs0 == [NoRecs EXCEPT !["f1"] = [by |-> "init", how |-> "create"]]

InitRecord ==
    /\ now = 0
    /\ faults = 0
    /\ calls = MaxRecordCalls
    /\ indexFile = FullFile(Index0)
    /\ indexTmp = NoFile
    /\ projDir = [n \in Projects |->
                    IF n = P0
                    THEN [exists |-> TRUE, findings |-> TRUE, audits |-> TRUE,
                          json |-> Meta0, jsonTmp |-> NoMeta]
                    ELSE NoDir]
    /\ locks = [k \in LockKeys |-> "free"]
    /\ cache \in [Managers -> {Unloaded, Loaded(Index0)}]
    /\ proc = [p \in Procs |-> IdleProc]
    /\ last = IdleProc
    /\ recs = Recs0
    /\ recTmp = NoRecs
    /\ hist = [NoHist EXCEPT !.recs = Recs0, !.meta = Meta0]
    /\ inst = NoInst
    /\ page = NoPage
    /\ doc = NoDoc
    /\ lst = NoLst

(* The steps of updateProject, of a client or inside a record operation. *)
StepUpdate(p) ==
    \/ \E m \in Managers, u \in {"none", "completed"} : StartUpdateProject(p, m, <<"p">>, u)
    \/ ReadIndexFile(p)
    \/ AcquireLock(p)
    \/ LockTimeout(p)
    \/ ReleaseLock(p)
    \/ WriteIndexOpen(p)
    \/ WriteIndexData(p)
    \/ WriteIndexRename(p)
    \/ updateProject_get(p)
    \/ updateProject_writeTemp(p)
    \/ updateProject_rename(p)
    \/ updateProject_setIndex(p)

StepRecord(p) ==
    \/ \E m \in Managers, n \in NamesRecord, i \in FindingIds :
           StartRecordOp(p, "createFinding", m, n, i)
    \/ \E m \in Managers, i \in AuditIds : StartRecordOp(p, "createAuditTrail", m, <<"p">>, i)
    \/ \E m \in Managers, i \in FindingIds :
           \E o \in {"updateFinding", "deleteFinding", "getFinding"} :
               StartRecordOp(p, o, m, <<"p">>, i)
    \/ \E m \in Managers, i \in AuditIds : StartRecordOp(p, "getAuditTrail", m, <<"p">>, i)
    \/ \E m \in Managers : \E o \in {"getProject", "listFindings", "listAuditTrails"} :
           StartRecordOp(p, o, m, <<"p">>, "none")
    \/ createFinding_getProject(p)
    \/ createFinding_check(p)
    \/ createFinding_access(p)
    \/ createAuditTrail_ensureDirectory(p)
    \/ writeRecord_temp(p)
    \/ writeRecord_rename(p)
    \/ writeRecord_catch(p)
    \/ getFinding_getProject(p)
    \/ getFinding_readFile(p)
    \/ updateFinding_check(p)
    \/ deleteFinding_unlink(p)
    \/ listFindings_getProject(p)
    \/ listFindings_readdir(p)
    \/ listFindings_readFiles(p)

NextRecord == \E p \in Procs : StepUpdate(p) \/ StepRecord(p)

SpecRecord == InitRecord /\ [][NextRecord]_vars

(* The same operations on a project that was completed through one manager *)
(* while the other may still hold the index it read before.                *)
MetaCompleted == NewMeta("completed", 0)

IndexDone == [EmptyIndex EXCEPT ![P0] = MetaCompleted]

InitCompleted ==
    /\ now = 0
    /\ faults = 0
    /\ calls = MaxRecordCalls
    /\ indexFile = FullFile(IndexDone)
    /\ indexTmp = NoFile
    /\ projDir = [n \in Projects |->
                    IF n = P0
                    THEN [exists |-> TRUE, findings |-> TRUE, audits |-> TRUE,
                          json |-> MetaCompleted, jsonTmp |-> NoMeta]
                    ELSE NoDir]
    /\ locks = [k \in LockKeys |-> "free"]
    /\ cache \in {c \in [Managers -> {Unloaded, Loaded(Index0), Loaded(IndexDone)}] :
                    c["A"] # Loaded(Index0)}
    /\ proc = [p \in Procs |-> IdleProc]
    /\ last = IdleProc
    /\ recs = Recs0
    /\ recTmp = NoRecs
    /\ hist = [done |-> TRUE, frozen |-> TRUE, recs |-> Recs0, meta |-> MetaCompleted]
    /\ inst = NoInst
    /\ page = NoPage
    /\ doc = NoDoc
    /\ lst = NoLst

SpecCompleted == InitCompleted /\ [][NextRecord]_vars

(***************************************************************************)
(* Properties of the locks and of the record operations.                   *)
(***************************************************************************)
IndexBodyPcs ==
    {"u_get", "u_wtmp", "u_ren", "u_idx", "u_rel", "w_open", "w_write", "w_ren",
     "c_access", "c_mkdir", "c_mkf", "c_mka", "c_wtmp", "c_ren", "c_idx", "c_rb", "c_rel",
     "d_get", "d_rm", "d_rel"}

(* p is between the start of the operation of its withLock(k, operation)   *)
(* and the release of the lock.                                            *)
InBody(p, k) ==
    IF k = IndexKey THEN proc[p].pc \in IndexBodyPcs
    ELSE /\ proc[p].op \in RecordOps
         /\ proc[p].pc \notin {"idle", "rc_get", "rc_chk", "r_lock"}
         /\ RecordKey(proc[p]) = k

Mutators == RecordOps \cup {"updateProject", "deleteProject"}

(* C3: every mutation of the project that is called after a completing     *)
(* updateProject has returned fails with ProjectCompletedError.            *)
C3_CompletedRejectsMutations ==
    [][(last'.n # last.n /\ last'.after /\ last'.op \in Mutators)
           => last'.res = "ProjectCompleted"]_vars

(* C4: once the on-disk index says completed, the record files of the      *)
(* project and its index entry stay what they were at that moment.         *)
C4_FrozenAfterCompletion ==
    hist.frozen => /\ recs = hist.recs
                   /\ indexFile.st = "ok"
                   /\ indexFile.data[P0] = hist.meta

ReadOps == {"getProject", "getFinding", "getAuditTrail", "listFindings", "listAuditTrails"}

(* C5: a read of the completed project succeeds and returns what was       *)
(* there when the project was completed: a get of a record that existed    *)
(* then returns that record, a list the records of its kind that existed   *)
(* then.                                                                   *)
C5_CompletedStaysReadable ==
    [][(last'.n # last.n /\ last'.after /\ last'.op \in ReadOps) =>
         CASE last'.op = "getProject" -> last'.res = "ok"
           [] last'.op \in {"getFinding", "getAuditTrail"} ->
                hist.recs[last'.id] # NoRec
                    => last'.res = "ok" /\ last'.val[last'.id] = hist.recs[last'.id]
           [] OTHER ->
                /\ last'.res = "ok"
                /\ \A i \in KindIds(last'.op) : last'.val[i] = hist.recs[i]]_vars

(* last is the first and last' the second of two createFinding calls that  *)
(* were in flight together for the same project and finding id, which was  *)
(* free when either was called.                                            *)
TwoCreatesReturned ==
    /\ last'.n # last.n
    /\ last.fresh
    /\ last'.fresh
    /\ last'.op = "createFinding"
    /\ last.op = "createFinding"
    /\ last.peer
    /\ last'.by # last.by
    /\ last'.id = last.id
    /\ sanitizeProjectName(last'.name) = sanitizeProjectName(last.name)

(* C6: of two concurrent createFinding calls for the same project and      *)
(* finding id one succeeds and the other fails with 'already exists', and  *)
(* no step of a create replaces a finding file that exists.                *)
C6_OneCreateWins ==
    [][/\ TwoCreatesReturned => {last.res, last'.res} = {"ok", "AlreadyExists"}
       /\ \A i \in FindingIds :
              (recs[i] # NoRec /\ recs'[i] # recs[i]) => recs'[i].how # "create"]_vars

(***************************************************************************)
(* The instance lock.  A process constructs its StorageManager and calls   *)
(* acquireInstanceLock: ensureDirectoryExists, initializeProjectIndex,     *)
(* which takes no lock and writes through the temporary file of            *)
(* writeProjectIndex, then lockfile.lock without retries.  The artifact of *)
(* a running holder is refreshed by the library and is never stale; that   *)
(* of a holder that crashed, or whose release failed, ages.  lockfile.lock *)
(* is one step.  A process that holds the lock writes and reads the index; *)
(* its own operations are serialized by withLock, so it has one index      *)
(* write in flight.  A writer keeps the file it opened: when that file is  *)
(* renamed the data lands in the index, when it is replaced it is lost.    *)
(***************************************************************************)
Mgr(i) == inst.mgr[i]

AcquirePcs == {"a_mkdir", "a_access", "a_open", "a_write", "a_ren", "a_lock"}

UpPcs == {"up", "w_open", "w_write", "w_ren"}

Holds(i) == Mgr(i).pc \in UpPcs

Holder == IF \E j \in Instances : Holds(j) THEN CHOOSE j \in Instances : Holds(j) ELSE "none"

restInst == <<now, calls, projDir, locks, cache, proc, last, recs, recTmp, hist, page, doc,
              lst>>

Size(idx) == Cardinality(IndexNames(idx))

(* fs.writeFile writes from offset 0 into the file it opened and truncated. *)
Over(old, ser) ==
    IF old.st = "ok" /\ Size(old.data) > Size(ser) THEN PartialFile ELSE FullFile(ser)

(* Where an open file is after fs.rename(tempPath, projectIndexPath). *)
Moved(fd) == CASE fd = "tmp" -> "index" [] fd = "index" -> "gone" [] OTHER -> fd

(* The holder i stops holding: no call in flight has seen it throughout. *)
Forget(m, i) == [j \in Instances |-> IF m[j].since = i THEN [m[j] EXCEPT !.since = "none"] ELSE m[j]]

IndexChoices == {EmptyIndex, Index0}

InstOpen(i, pc) ==
    /\ indexTmp' = PartialFile
    /\ inst' = [inst EXCEPT !.mgr[i].fd = "tmp", !.mgr[i].pc = pc]
    /\ UNCHANGED <<indexFile, faults>>
    /\ UNCHANGED restInst

InstWrite(i, ser, pc) ==
    /\ indexTmp' = IF Mgr(i).fd = "tmp" THEN Over(indexTmp, ser) ELSE indexTmp
    /\ indexFile' = IF Mgr(i).fd = "index" THEN Over(indexFile, ser) ELSE indexFile
    /\ inst' = [inst EXCEPT !.mgr[i].fd = "none", !.mgr[i].pc = pc]
    /\ UNCHANGED faults
    /\ UNCHANGED restInst

InstRename(i, pc) ==
    /\ indexTmp.st # "absent"
    /\ indexFile' = indexTmp
    /\ indexTmp' = NoFile
    /\ inst' = [inst EXCEPT !.mgr = [j \in Instances |->
                    IF j = i THEN [Mgr(j) EXCEPT !.pc = pc]
                    ELSE [Mgr(j) EXCEPT !.fd = Moved(Mgr(j).fd)]]]
    /\ UNCHANGED faults
    /\ UNCHANGED restInst

(* The process starts and calls acquireInstanceLock. *)
acquireInstanceLock(i) ==
    /\ Mgr(i).pc = "down"
    /\ inst' = [inst EXCEPT !.mgr[i] =
                    [DownInstance EXCEPT !.pc = "a_mkdir", !.since = Holder]]
    /\ UNCHANGED <<indexFile, indexTmp, faults>>
    /\ UNCHANGED restInst

acquireInstanceLock_ensureDirectory(i) ==
    /\ Mgr(i).pc = "a_mkdir"
    /\ inst' = [inst EXCEPT !.mgr[i].pc = "a_access"]
    /\ UNCHANGED <<indexFile, indexTmp, faults>>
    /\ UNCHANGED restInst

initializeProjectIndex_access(i) ==
    /\ Mgr(i).pc = "a_access"
    /\ inst' = [inst EXCEPT !.mgr[i].pc =
                    IF indexFile.st = "absent" THEN "a_open" ELSE "a_lock"]
    /\ UNCHANGED <<indexFile, indexTmp, faults>>
    /\ UNCHANGED restInst

initializeProjectIndex_open(i) ==
    /\ Mgr(i).pc = "a_open"
    /\ InstOpen(i, "a_write")

initializeProjectIndex_write(i) ==
    /\ Mgr(i).pc = "a_write"
    /\ InstWrite(i, EmptyIndex, "a_ren")

initializeProjectIndex_rename(i) ==
    /\ Mgr(i).pc = "a_ren"
    /\ InstRename(i, "a_lock")

(* The rename finds no temporary file: 'Failed to initialize project       *)
(* index', which acquireInstanceLock rethrows as 'Failed to acquire        *)
(* instance lock'.  The process stops.                                     *)
initializeProjectIndex_fail(i) ==
    /\ Mgr(i).pc = "a_ren"
    /\ indexTmp.st = "absent"
    /\ inst' = [inst EXCEPT !.mgr[i] = [DownInstance EXCEPT !.res = FailedToAcquireError]]
    /\ UNCHANGED <<indexFile, indexTmp, faults>>
    /\ UNCHANGED restInst

(* lockfile.lock(instanceLockPath, {retries: 0, stale: 30000}) can take    *)
(* the lock: no artifact, or one that has not been refreshed for 30 s.     *)
CanLockInstanceAlways == TRUE

CanLockInstance ==
    \/ inst.art.st = "none"
    \/ inst.art.st = "orphan" /\ inst.art.age >= 1

acquireInstanceLock_lock(i) ==
    /\ Mgr(i).pc = "a_lock"
    /\ CanLockInstance
    /\ inst' = [inst EXCEPT !.art = HeldArtifact(i),
                            !.mgr[i] = [Mgr(i) EXCEPT !.pc = "up", !.since = "none"]]
    /\ UNCHANGED <<indexFile, indexTmp, faults>>
    /\ UNCHANGED restInst

(* 'Lock file is already being held': the 'Another MCP Security Report     *)
(* instance is already running' error.  The process stops.                 *)
acquireInstanceLock_held(i) ==
    /\ Mgr(i).pc = "a_lock"
    /\ ~CanLockInstance
    /\ inst' = [inst EXCEPT !.mgr[i] = [DownInstance EXCEPT !.res = AnotherInstanceError]]
    /\ UNCHANGED <<indexFile, indexTmp, faults>>
    /\ UNCHANGED restInst

(* What the log of a process that stopped says of its release. *)
ReleasedMsg == [NoMsg EXCEPT !.kind = "released"]

ReleaseFailedMsg == [NoMsg EXCEPT !.kind = "releaseFailed"]

KeptArtifact == inst.art

(* The artifact after instanceLockRelease() removed it. *)
ReleasedArtifact == NoArtifact

(* releaseInstanceLock, after which the process stops. *)
releaseInstanceLock(i) ==
    /\ Mgr(i).pc = "up"
    /\ inst' = [art |-> ReleasedArtifact,
                mgr |-> Forget([inst.mgr EXCEPT ![i] =
                                   [DownInstance EXCEPT !.res = ReleasedMsg]], i)]
    /\ UNCHANGED <<indexFile, indexTmp, faults>>
    /\ UNCHANGED restInst

(* The release throws: a warning is logged, the artifact stays and is no   *)
(* longer refreshed.                                                       *)
releaseInstanceLock_fail(i) ==
    /\ Mgr(i).pc = "up"
    /\ faults > 0
    /\ faults' = faults - 1
    /\ inst' = [art |-> [inst.art EXCEPT !.st = "orphan"],
                mgr |-> Forget([inst.mgr EXCEPT ![i] =
                                   [DownInstance EXCEPT !.res = ReleaseFailedMsg]], i)]
    /\ UNCHANGED <<indexFile, indexTmp>>
    /\ UNCHANGED restInst

(* A write of the index by an operation of the holder (createProject,      *)
(* updateProject, deleteProject): writeProjectIndex.                       *)
writeProjectIndex(i, idx) ==
    /\ Mgr(i).pc = "up"
    /\ inst' = [inst EXCEPT !.mgr[i].pc = "w_open", !.mgr[i].ser = idx]
    /\ UNCHANGED <<indexFile, indexTmp, faults>>
    /\ UNCHANGED restInst

writeProjectIndex_open(i) ==
    /\ Mgr(i).pc = "w_open"
    /\ InstOpen(i, "w_write")

writeProjectIndex_write(i) ==
    /\ Mgr(i).pc = "w_write"
    /\ InstWrite(i, Mgr(i).ser, "w_ren")

writeProjectIndex_rename(i) ==
    /\ Mgr(i).pc = "w_ren"
    /\ InstRename(i, "up")

(* The rename finds no temporary file: 'Failed to write project index'. *)
writeProjectIndex_fail(i) ==
    /\ Mgr(i).pc = "w_ren"
    /\ indexTmp.st = "absent"
    /\ inst' = [inst EXCEPT !.mgr[i].pc = "up"]
    /\ UNCHANGED <<indexFile, indexTmp, faults>>
    /\ UNCHANGED restInst

(* readProjectIndex with no snapshot: fs.readFile and JSON.parse, which    *)
(* throws on a partial serialization.                                      *)
readProjectIndex_file(i) ==
    /\ Mgr(i).pc = "up"
    /\ inst' = [inst EXCEPT !.mgr[i].rd = indexFile.st]
    /\ UNCHANGED <<indexFile, indexTmp, faults>>
    /\ UNCHANGED restInst

(* The process is killed at any step. *)
Crash(i) ==
    /\ Mgr(i).pc # "down"
    /\ faults > 0
    /\ faults' = faults - 1
    /\ inst' = [art |-> IF inst.art.st = "held" /\ inst.art.owner = i
                        THEN [inst.art EXCEPT !.st = "orphan"] ELSE inst.art,
                mgr |-> Forget([inst.mgr EXCEPT ![i] = DownInstance], i)]
    /\ UNCHANGED <<indexFile, indexTmp>>
    /\ UNCHANGED restInst

(* Time passes over an artifact that is not refreshed. *)
Tick ==
    /\ inst.art.st = "orphan"
    /\ inst.art.age < 2
    /\ inst' = [inst EXCEPT !.art.age = inst.art.age + 1]
    /\ UNCHANGED <<indexFile, indexTmp, faults>>
    /\ UNCHANGED restInst

(* The sweep of a running process removes '.mcp-instance.lock' when it is  *)
(* older than 60 s; the test that skips the own lock compares the path of  *)
(* the artifact with instanceLockPath and never holds.                     *)
cleanupStaleLocks(i) ==
    /\ Mgr(i).pc # "down"
    /\ inst.art.st # "none"
    /\ ~(inst.art.path = instanceLockPath /\ Holds(i))
    /\ inst.art.age = 2
    /\ inst' = [inst EXCEPT !.art = NoArtifact]
    /\ UNCHANGED <<indexFile, indexTmp, faults>>
    /\ UNCHANGED restInst

(* A storage directory that is new or has been used before. *)
InitInstance ==
    /\ now = 0
    /\ faults = MaxFaults
    /\ calls = 0
    /\ indexFile \in {NoFile, FullFile(EmptyIndex)}
    /\ indexTmp = NoFile
    /\ projDir = [n \in Projects |-> NoDir]
    /\ locks = [k \in LockKeys |-> "free"]
    /\ cache = [m \in Managers |-> Unloaded]
    /\ proc = [p \in Procs |-> IdleProc]
    /\ last = IdleProc
    /\ recs = NoRecs
    /\ recTmp = NoRecs
    /\ hist = NoHist
    /\ inst = NoInst
    /\ page = NoPage
    /\ doc = NoDoc
    /\ lst = NoLst

StepInstance(i) ==
    \/ acquireInstanceLock(i)
    \/ acquireInstanceLock_ensureDirectory(i)
    \/ initializeProjectIndex_access(i)
    \/ initializeProjectIndex_open(i)
    \/ initializeProjectIndex_write(i)
    \/ initializeProjectIndex_rename(i)
    \/ initializeProjectIndex_fail(i)
    \/ acquireInstanceLock_lock(i)
    \/ acquireInstanceLock_held(i)
    \/ releaseInstanceLock(i)
    \/ releaseInstanceLock_fail(i)
    \/ \E idx \in IndexChoices : writeProjectIndex(i, idx)
    \/ writeProjectIndex_open(i)
    \/ writeProjectIndex_write(i)
    \/ writeProjectIndex_rename(i)
    \/ writeProjectIndex_fail(i)
    \/ readProjectIndex_file(i)
    \/ Crash(i)
    \/ cleanupStaleLocks(i)

NextInstance == (\E i \in Instances : StepInstance(i)) \/ Tick

SpecInstance == InitInstance /\ [][NextInstance]_vars

C9_IndexNeverPartial ==
    /\ indexFile.st # "partial"
    /\ \A i \in Instances : Mgr(i).rd # "partial"

(***************************************************************************)
(* listFindings(project, {limit, offset}) after getProject and a miss of   *)
(* the listing cache.  The directory holds n finding files with distinct   *)
(* modification times 1..n, a file being named by its time; a finding's    *)
(* `updated` is ordered as the time its file was written.  readdir         *)
(* enumerates the files in any order, every stat succeeds.  One step is    *)
(* one batch of stats.                                                     *)
(***************************************************************************)
Min(a, b) == IF a < b THEN a ELSE b

Range(s) == {s[k] : k \in DOMAIN s}

(* sort((a, b) => b.mtime - a.mtime) on distinct times *)
RECURSIVE SortDesc(_)
SortDesc(S) ==
    IF S = {} THEN <<>>
    ELSE LET m == CHOOSE x \in S : \A y \in S : y <= x
         IN <<m>> \o SortDesc(S \ {m})

(* Array.prototype.slice(a, b) *)
Slice(s, a, b) == SubSeq(s, a + 1, Min(b, Len(s)))

(* Array.prototype.splice(n): keep the first n *)
Splice(s, n) == IF Len(s) > n THEN SubSeq(s, 1, n) ELSE s

Orders(n) == {f \in [1..n -> 1..n] : \A a, b \in 1..n : f[a] = f[b] => a = b}

batchSize(n, limit) ==
    IF n > 1000 THEN Min(25, limit * 2) ELSE Min(50, limit * 3)

memoryLimit(limit, offset) ==
    IF offset > 500 THEN Min(offset + limit + 100, 2000) ELSE offset + limit + 50

restPage == <<now, faults, calls, indexFile, indexTmp, projDir, locks, cache, proc,
              last, recs, recTmp, hist, inst, doc, lst>>

(* fs.readdir and the filter for '.md' files *)
listFindings_mdFiles ==
    /\ page.pc = "called"
    /\ \E order \in Orders(page.i) :
           page' = [page EXCEPT !.files = order, !.i = 0,
                                !.pc = IF Len(order) = 0 THEN "slice" ELSE "batch"]
    /\ UNCHANGED restPage

(* One turn of the loop: stat the batch, push, sort, trim, test for the    *)
(* early stop.                                                             *)
listFindings_batch ==
    /\ page.pc = "batch"
    /\ LET bs == batchSize(Len(page.files), page.limit)
           targetCount == page.offset + page.limit
           batch == Slice(page.files, page.i, page.i + bs)
           sorted == SortDesc(Range(page.filesByMtime \o batch))
           trimmed == Splice(sorted, memoryLimit(page.limit, page.offset))
           stop == Len(trimmed) >= targetCount + Min(20, bs)
       IN page' = [page EXCEPT !.filesByMtime = trimmed,
                               !.i = page.i + bs,
                               !.pc = IF stop \/ page.i + bs >= Len(page.files)
                                      THEN "slice" ELSE "batch"]
    /\ UNCHANGED restPage

(* The final sort and slice, the read of the files of the page, the sort   *)
(* of the findings by `updated`.                                           *)
listFindings_page ==
    /\ page.pc = "slice"
    /\ LET sortedFiles == Slice(SortDesc(Range(page.filesByMtime)),
                                page.offset, page.offset + page.limit)
       IN page' = [page EXCEPT !.sortedFiles = sortedFiles,
                               !.out = SortDesc(Range(sortedFiles)),
                               !.pc = "done"]
    /\ UNCHANGED restPage

InitPage ==
    /\ now = 0
    /\ faults = 0
    /\ calls = 0
    /\ indexFile = FullFile(Index0)
    /\ indexTmp = NoFile
    /\ projDir = [n \in Projects |-> NoDir]
    /\ locks = [k \in LockKeys |-> "free"]
    /\ cache = [m \in Managers |-> Unloaded]
    /\ proc = [p \in Procs |-> IdleProc]
    /\ last = IdleProc
    /\ recs = NoRecs
    /\ recTmp = NoRecs
    /\ hist = NoHist
    /\ inst = NoInst
    /\ doc = NoDoc
    /\ lst = NoLst
    /\ \E n \in 0..MaxFiles, l \in 1..MaxLimit, o \in 0..MaxOffset :
           page = [NoPage EXCEPT !.pc = "called", !.i = n, !.limit = l, !.offset = o]

NextPage == listFindings_mdFiles \/ listFindings_batch \/ listFindings_page

SpecPage == InitPage /\ [][NextPage]_vars

(* C10: listFindings returns exactly the findings with the (O+1)-th        *)
(* through (O+L)-th most recent modification times, whatever the order of  *)
(* the directory: none when O >= N, the remaining ones when fewer than L   *)
(* remain.                                                                 *)
C10_PageExact ==
    page.pc = "done" =>
        page.out = Slice(SortDesc(1..Len(page.files)), page.offset, page.offset + page.limit)

(***************************************************************************)
(* A record written to its file and read back: createFinding then          *)
(* getFinding, createAuditTrail then getAuditTrail, the project existing   *)
(* and no other call running.  A text is a sequence of characters: a       *)
(* letter, a blank, a line feed, a hash; a section name ("Description",    *)
(* "Evidence", "Recommendations") is one element.  The front matter is the *)
(* set of the keys that were given a value, each with its value: what      *)
(* matter.stringify dumps and matter() loads.  A date is its number of     *)
(* milliseconds, which toISOString and new Date() keep.                    *)
(***************************************************************************)
TextChars == {"a", " ", "\n", "#"}

RECURSIVE Texts(_)
Texts(n) ==
    IF n = 0 THEN {<<>>}
    ELSE Texts(n - 1) \cup {Append(s, c) : s \in {x \in Texts(n - 1) : Len(x) = n - 1},
                                          c \in TextChars}

(* An optional field: undefined, or a value. *)
Undefined == [present |-> FALSE, v |-> <<>>]

Some(v) == [present |-> TRUE, v |-> v]

(* A JavaScript string is truthy when it is not empty. *)
Truthy(o) == o.present /\ o.v # <<>>

IsWs(c) == c \in {" ", "\n"}

(* String.prototype.trim *)
TrimText(s) ==
    LET keep == {k \in 1..Len(s) : ~IsWs(s[k])}
    IN IF keep = {} THEN <<>>
       ELSE SubSeq(s, CHOOSE k \in keep : \A j \in keep : k <= j,
                      CHOOSE k \in keep : \A j \in keep : j <= k)

Heading(name) == <<"#", "#", " ", name>>

(* `## ${sectionName}` matches at p *)
HeadingAt(s, p, name) == p + 3 <= Len(s) /\ SubSeq(s, p, p + 3) = Heading(name)

(* the lookahead `\n## ` matches at q *)
NextHeadingAt(s, q) == q + 3 <= Len(s) /\ SubSeq(s, q, q + 3) = <<"\n", "#", "#", " ">>

(* `\s*\n` after the heading at p: the white space that follows the name,  *)
(* up to its last line feed.  0 when it has no line feed.                  *)
CaptureStart(s, p) ==
    LET run == {k \in (p + 4)..Len(s) : \A j \in (p + 4)..k : IsWs(s[j])}
        nls == {k \in run : s[k] = "\n"}
    IN IF nls = {} THEN 0 ELSE (CHOOSE k \in nls : \A j \in nls : j <= k) + 1

(* extractSection: the first match of                                      *)
(* `## ${sectionName}\s*\n([\s\S]*?)(?=\n## |$)`, its group trimmed.       *)
extractSection(s, name) ==
    LET starts == {p \in 1..Len(s) : HeadingAt(s, p, name) /\ CaptureStart(s, p) # 0}
    IN IF starts = {} THEN Undefined
       ELSE LET p == CHOOSE x \in starts : \A y \in starts : x <= y
                c == CaptureStart(s, p)
                ends == {q \in c..(Len(s) + 1) : q = Len(s) + 1 \/ NextHeadingAt(s, q)}
                e == CHOOSE x \in ends : \A y \in ends : x <= y
            IN Some(TrimText(SubSeq(s, c, e - 1)))

(* matter.stringify(content, data) then matter(file).content: the content  *)
(* ends with a line feed.                                                  *)
matterContent(content) ==
    IF content # <<>> /\ content[Len(content)] # "\n" THEN Append(content, "\n")
    ELSE content

(* The keys of the front matter that have a value. *)
FrontMatter(fields, rec) == [k \in {f \in fields : rec[f].present} |-> rec[k].v]

(* data.key *)
Data(fm, k) == IF k \in DOMAIN fm THEN Some(fm[k]) ELSE Undefined

(* calculateCVSSScore *)
cvssScore(vector) == <<"score", vector>>

FindingFields == {"id", "title", "severity", "cwe", "cvssString", "cvssScore",
                  "components", "description", "evidence", "recommendations",
                  "created", "updated"}

(* The finding createFinding builds from its input and returns. *)
NewFinding(input, t) ==
    [id |-> Some(<<"FIND", input.title.v>>),
     title |-> input.title,
     severity |-> input.severity,
     cwe |-> input.cwe,
     cvssString |-> input.cvssString,
     cvssScore |-> IF Truthy(input.cvssString) THEN Some(cvssScore(input.cvssString.v))
                   ELSE Undefined,
     components |-> input.components,
     description |-> input.description,
     evidence |-> input.evidence,
     recommendations |-> input.recommendations,
     created |-> Some(t),
     updated |-> Some(t)]

(* The file of a finding: front matter and markdown sections. *)
FindingFile(f) ==
    [data |-> FrontMatter({"id", "title", "severity", "created", "updated", "cwe",
                           "cvssString", "cvssScore", "components"}, f),
     content |-> matterContent(
         Heading("Description") \o <<"\n", "\n">> \o f.description.v \o <<"\n", "\n">>
         \o (IF Truthy(f.evidence)
             THEN Heading("Evidence") \o <<"\n", "\n">> \o f.evidence.v \o <<"\n", "\n">>
             ELSE <<>>)
         \o (IF Truthy(f.recommendations)
             THEN Heading("Recommendations") \o <<"\n", "\n">> \o f.recommendations.v
             ELSE <<>>))]

(* What getFinding returns for a file. *)
ReadFinding(file) ==
    LET description == extractSection(file.content, "Description")
    IN [id |-> Data(file.data, "id"),
        title |-> Data(file.data, "title"),
        severity |-> Data(file.data, "severity"),
        cwe |-> Data(file.data, "cwe"),
        cvssString |-> Data(file.data, "cvssString"),
        cvssScore |-> Data(file.data, "cvssScore"),
        components |-> Data(file.data, "components"),
        description |-> IF description.present THEN description ELSE Some(<<>>),
        evidence |-> extractSection(file.content, "Evidence"),
        recommendations |-> extractSection(file.content, "Recommendations"),
        created |-> Data(file.data, "created"),
        updated |-> Data(file.data, "updated")]

AuditFields == {"id", "title", "description", "tools", "methodology", "results",
                "notes", "created"}

(* The entry createAuditTrail builds from its input and returns. *)
NewAuditTrail(input, t) ==
    [id |-> Some(<<"AUD", input.title.v>>),
     title |-> input.title,
     description |-> input.description,
     tools |-> input.tools,
     methodology |-> input.methodology,
     results |-> input.results,
     notes |-> input.notes,
     created |-> Some(t)]

AuditFile(e) ==
    [data |-> FrontMatter({"id", "title", "created", "tools", "methodology",
                           "results", "notes"}, e),
     content |-> matterContent(e.description.v)]

(* What getAuditTrail returns for a file: the fields it does not name are  *)
(* undefined.                                                              *)
ReadAuditTrail(file) ==
    [id |-> Data(file.data, "id"),
     title |-> Data(file.data, "title"),
     description |-> Some(file.content),
     tools |-> Data(file.data, "tools"),
     methodology |-> Undefined,
     results |-> Undefined,
     notes |-> Undefined,
     created |-> Data(file.data, "created")]

(* The valid inputs of the model. *)
FindingInputs ==
    [title : {Some(<<"t">>)},
     severity : {Some("high")},
     cwe : {Undefined, Some(<<"CWE-79">>)},
     cvssString : {Undefined, Some(<<"CVSS:3.1/AV:N">>)},
     components : {Undefined, Some(<<"c">>)},
     description : {Some(s) : s \in Texts(MaxText) \ {<<>>}},
     evidence : {Undefined, Some(<<>>), Some(<<"a">>), Some(<<" ">>)},
     recommendations : {Undefined, Some(<<"a">>)}]

AuditInputs ==
    [title : {Some(<<"t">>)},
     description : {Some(s) : s \in Texts(2) \ {<<>>}},
     tools : {Undefined, Some(<<"nmap">>)},
     methodology : {Undefined, Some(<<"a">>)},
     results : {Undefined, Some(<<"a">>)},
     notes : {Undefined, Some(<<"a">>)}]

restDoc == <<faults, calls, indexFile, indexTmp, projDir, locks, cache, proc,
             last, recs, recTmp, hist, inst, page, lst>>

(* createFinding: the finding is built, written to its temporary file and  *)
(* renamed; it is returned.                                                *)
createFinding_write ==
    /\ doc.pc = "called"
    /\ doc.kind = "finding"
    /\ \E t \in now..MaxTime :
           /\ now' = t
           /\ doc' = [doc EXCEPT !.pc = "created",
                                 !.made = NewFinding(doc.input, t),
                                 !.file = FindingFile(NewFinding(doc.input, t))]
    /\ UNCHANGED restDoc

(* getFinding(project, finding.id) *)
getFinding_read ==
    /\ doc.pc = "created"
    /\ doc.kind = "finding"
    /\ doc' = [doc EXCEPT !.pc = "read", !.out = ReadFinding(doc.file)]
    /\ UNCHANGED now
    /\ UNCHANGED restDoc

createAuditTrail_write ==
    /\ doc.pc = "called"
    /\ doc.kind = "audit"
    /\ \E t \in now..MaxTime :
           /\ now' = t
           /\ doc' = [doc EXCEPT !.pc = "created",
                                 !.made = NewAuditTrail(doc.input, t),
                                 !.file = AuditFile(NewAuditTrail(doc.input, t))]
    /\ UNCHANGED restDoc

(* getAuditTrail(project, entry.id) *)
getAuditTrail_read ==
    /\ doc.pc = "created"
    /\ doc.kind = "audit"
    /\ doc' = [doc EXCEPT !.pc = "read", !.out = ReadAuditTrail(doc.file)]
    /\ UNCHANGED now
    /\ UNCHANGED restDoc

InitDoc ==
    /\ now = 0
    /\ faults = 0
    /\ calls = 0
    /\ indexFile = FullFile(Index0)
    /\ indexTmp = NoFile
    /\ projDir = [n \in Projects |-> NoDir]
    /\ locks = [k \in LockKeys |-> "free"]
    /\ cache = [m \in Managers |-> Unloaded]
    /\ proc = [p \in Procs |-> IdleProc]
    /\ last = IdleProc
    /\ recs = NoRecs
    /\ recTmp = NoRecs
    /\ hist = NoHist
    /\ inst = NoInst
    /\ page = NoPage
    /\ lst = NoLst
    /\ \/ \E i \in FindingInputs :
              doc = [NoDoc EXCEPT !.pc = "called", !.kind = "finding", !.input = i]
       \/ \E i \in AuditInputs :
              doc = [NoDoc EXCEPT !.pc = "called", !.kind = "audit", !.input = i]

NextDoc ==
    \/ createFinding_write
    \/ getFinding_read
    \/ createAuditTrail_write
    \/ getAuditTrail_read

SpecDoc == InitDoc /\ [][NextDoc]_vars

(* A field as the claim expects it to be read back: an empty optional      *)
(* section as absent, any other value as it is.                            *)
Expected(o) == IF o.present /\ o.v = <<>> THEN Undefined ELSE o

(* C11: a finding read back after its creation equals the created one on   *)
(* every field, an empty optional section being read back as absent.       *)
C11_FindingRoundTrip ==
    (doc.pc = "read" /\ doc.kind = "finding") =>
        \A f \in FindingFields :
            doc.out[f] = IF f \in {"evidence", "recommendations"}
                         THEN Expected(doc.made[f]) ELSE doc.made[f]

(* C12: an audit-trail entry read back after its creation equals the       *)
(* created one on id, title, description, tools, methodology, results,     *)
(* notes and created.                                                      *)
C12_AuditTrailRoundTrip ==
    (doc.pc = "read" /\ doc.kind = "audit") =>
        \A f \in AuditFields : doc.out[f] = doc.made[f]

(***************************************************************************)
(* The listing cache.  Every StorageManager has its findingsCache, keyed   *)
(* by `${projectName}-findings` with the name as the caller spelled it.    *)
(* listFindings serves the cached list when its lastModified is not older  *)
(* than the newest file of the directory; it stores a list only when the   *)
(* directory is missing (the empty list, stamped Date.now()).  The         *)
(* mutations of a manager delete the entry of the name they were called    *)
(* with.  Here a mutation is one step: its interleavings are those of the  *)
(* record operations above; listFindings is taken await by await, with a   *)
(* page that holds every file.                                             *)
(***************************************************************************)
NoEntry == [present |-> FALSE, lastModified |-> 0]

NoList ==
    [pc |-> "idle", m |-> "A", name |-> <<>>, lastModified |-> 0, names |-> {},
     start |-> NoRecs, clean |-> FALSE, touched |-> {}, res |-> "none", out |-> NoRecs]

(* The index as manager m sees it: its snapshot if it has one. *)
View(m) == IF cache[m].loaded THEN cache[m].idx ELSE indexFile.data

FullDir(meta) ==
    [exists |-> TRUE, findings |-> TRUE, audits |-> TRUE, json |-> meta, jsonTmp |-> NoMeta]

restLst == <<faults, indexTmp, locks, proc, last, recTmp, hist, inst, page, doc>>

(* A mutation of finding i, or of the whole project, next to the call. *)
Touch(c, ids, project) ==
    IF c.pc \in {"idle", "done"} THEN c
    ELSE [c EXCEPT !.touched = c.touched \cup ids,
                   !.clean = c.clean /\ ~project]

Mutation(t) ==
    /\ calls > 0
    /\ calls' = calls - 1
    /\ t \in now..MaxTime
    /\ now' = t

lc_createProject(m) ==
    \E t \in 0..MaxTime :
        /\ Mutation(t)
        /\ ~View(m)[P0].present
        /\ ~projDir[P0].exists
        /\ projDir' = [projDir EXCEPT ![P0] = FullDir(NewMeta("in-progress", t))]
        /\ indexFile' = FullFile([View(m) EXCEPT ![P0] = NewMeta("in-progress", t)])
        /\ cache' = [cache EXCEPT ![m] = Unloaded]
        /\ lst' = [lst EXCEPT !.call = Touch(lst.call, {}, TRUE)]
        /\ UNCHANGED recs
        /\ UNCHANGED restLst

lc_deleteProject(m) ==
    \E t \in 0..MaxTime :
        /\ Mutation(t)
        /\ View(m)[P0].present
        /\ projDir' = [projDir EXCEPT ![P0] = NoDir]
        /\ recs' = NoRecs
        /\ indexFile' = FullFile([View(m) EXCEPT ![P0] = NoMeta])
        /\ cache' = [cache EXCEPT ![m] = Unloaded]
        /\ lst' = [lst EXCEPT !.call = Touch(lst.call, FindingIds, TRUE),
                              !.mtime = [i \in FindingIds |-> 0]]
        /\ UNCHANGED restLst

(* The write of the finding file, updateProject(projectName, {}) and       *)
(* invalidateCache(projectName, 'findings') of a record mutation.          *)
Mutated(m, n, i, t, rec) ==
    /\ recs' = [recs EXCEPT ![i] = rec]
    /\ indexFile' = FullFile([View(m) EXCEPT ![P0] = NewMeta(View(m)[P0].status, t)])
    /\ cache' = [cache EXCEPT ![m] = Unloaded]
    /\ lst' = [lst EXCEPT !.call = Touch(lst.call, {i}, FALSE),
                          !.mtime[i] = t,
                          !.used = lst.used \cup {i},
                          !.lc[m][n] = NoEntry]
    /\ UNCHANGED projDir
    /\ UNCHANGED restLst

lc_createFinding(m, n, i) ==
    \E t \in 0..MaxTime :
        /\ Mutation(t)
        /\ View(m)[P0].present
        /\ View(m)[P0].status # "completed"
        /\ projDir[P0].findings
        /\ i \notin lst.used
        /\ Mutated(m, n, i, t, [by |-> m, how |-> "create"])

lc_updateFinding(m, n, i) ==
    \E t \in 0..MaxTime :
        /\ Mutation(t)
        /\ View(m)[P0].present
        /\ View(m)[P0].status # "completed"
        /\ recs[i] # NoRec
        /\ Mutated(m, n, i, t, [by |-> m, how |-> "update"])

lc_deleteFinding(m, n, i) ==
    \E t \in 0..MaxTime :
        /\ Mutation(t)
        /\ View(m)[P0].present
        /\ View(m)[P0].status # "completed"
        /\ recs[i] # NoRec
        /\ Mutated(m, n, i, t, NoRec)

(* listFindings(projectName) is called. *)
lc_listFindings(m, n) ==
    /\ lst.call.pc \in {"idle", "done"}
    /\ lst.lists > 0
    /\ lst' = [lst EXCEPT !.lists = lst.lists - 1,
                          !.call = [NoList EXCEPT !.pc = "getProject", !.m = m, !.name = n,
                                                  !.start = recs,
                                                  !.clean = indexFile.data[P0].present]]
    /\ UNCHANGED <<now, calls, indexFile, cache, projDir, recs>>
    /\ UNCHANGED restLst

(* await this.getProject(projectName) *)
lc_getProject ==
    /\ lst.call.pc = "getProject"
    /\ cache' = [cache EXCEPT ![lst.call.m] = Loaded(View(lst.call.m))]
    /\ lst' = IF View(lst.call.m)[P0].present
              THEN [lst EXCEPT !.call.pc = "lastModified"]
              ELSE [lst EXCEPT !.call.pc = "done", !.call.res = "ProjectNotFound"]
    /\ UNCHANGED <<now, calls, indexFile, projDir, recs>>
    /\ UNCHANGED restLst

(* getDirectoryLastModified: the newest mtime, 0 for no file or no directory *)
lc_getDirectoryLastModified ==
    /\ lst.call.pc = "lastModified"
    /\ LET files == {i \in FindingIds : recs[i] # NoRec}
           newest == IF files = {} THEN 0
                     ELSE CHOOSE x \in {lst.mtime[i] : i \in files} :
                              \A i \in files : lst.mtime[i] <= x
       IN lst' = [lst EXCEPT !.call.pc = "cacheGet", !.call.lastModified = newest]
    /\ UNCHANGED <<now, calls, indexFile, cache, projDir, recs>>
    /\ UNCHANGED restLst

(* findingsCache.get and the freshness test; a hit returns the cached list *)
lc_cacheGet ==
    /\ lst.call.pc = "cacheGet"
    /\ LET cached == lst.lc[lst.call.m][lst.call.name]
       IN lst' = IF cached.present /\ cached.lastModified >= lst.call.lastModified
                 THEN [lst EXCEPT !.call.pc = "done", !.call.res = "ok",
                                  !.call.out = NoRecs]
                 ELSE [lst EXCEPT !.call.pc = "readdir"]
    /\ UNCHANGED <<now, calls, indexFile, cache, projDir, recs>>
    /\ UNCHANGED restLst

(* fs.readdir(findingsDir).  ENOENT goes to the catch, which runs in the   *)
(* same turn: findingsCache.set(cacheKey, [], Date.now()); return [].  The *)
(* mutex of the LRUCache never waits, so the set is part of this step.     *)
lc_readdir ==
    /\ lst.call.pc = "readdir"
    /\ IF projDir[P0].findings
       THEN /\ lst' = [lst EXCEPT !.call.pc = "read",
                                  !.call.names = {i \in FindingIds : recs[i] # NoRec}]
            /\ now' = now
       ELSE \E t \in now..MaxTime :
                /\ now' = t
                /\ lst' = [lst EXCEPT !.call.pc = "done", !.call.res = "ok",
                                      !.call.out = NoRecs,
                                      !.lc[lst.call.m][lst.call.name] =
                                          [present |-> TRUE, lastModified |-> t]]
    /\ UNCHANGED <<calls, indexFile, cache, projDir, recs>>
    /\ UNCHANGED restLst

(* The files of the page are read; one that is gone is skipped. *)
lc_readFiles ==
    /\ lst.call.pc = "read"
    /\ lst' = [lst EXCEPT !.call.pc = "done", !.call.res = "ok",
                          !.call.out = [i \in RecIds |->
                              IF i \in lst.call.names THEN recs[i] ELSE NoRec]]
    /\ UNCHANGED <<now, calls, indexFile, cache, projDir, recs>>
    /\ UNCHANGED restLst

(* The managers of one process on a directory with one project; a manager  *)
(* that has read the index holds it as its snapshot.                       *)
InitListing ==
    /\ now = 0
    /\ faults = 0
    /\ calls = MaxMutations
    /\ indexFile = FullFile(Index0)
    /\ indexTmp = NoFile
    /\ projDir = [n \in Projects |-> IF n = P0 THEN FullDir(Meta0) ELSE NoDir]
    /\ locks = [k \in LockKeys |-> "free"]
    /\ cache \in [Managers -> {Unloaded, Loaded(Index0)}]
    /\ proc = [p \in Procs |-> IdleProc]
    /\ last = IdleProc
    /\ recs = NoRecs
    /\ recTmp = NoRecs
    /\ hist = NoHist
    /\ inst = NoInst
    /\ page = NoPage
    /\ doc = NoDoc
    /\ lst = [pc |-> "listing",
              mtime |-> [i \in FindingIds |-> 0],
              used |-> {},
              lc |-> [m \in Managers |-> [n \in NamesRecord |-> NoEntry]],
              lists |-> MaxLists,
              call |-> NoList]

NextListing ==
    \/ \E m \in Managers : lc_createProject(m)
    \/ \E m \in Managers : lc_deleteProject(m)
    \/ \E m \in Managers, n \in NamesRecord, i \in FindingIds : lc_createFinding(m, n, i)
    \/ \E m \in Managers, n \in NamesRecord, i \in FindingIds : lc_updateFinding(m, n, i)
    \/ \E m \in Managers, n \in NamesRecord, i \in FindingIds : lc_deleteFinding(m, n, i)
    \/ \E m \in Managers, n \in NamesRecord : lc_listFindings(m, n)
    \/ lc_getProject
    \/ lc_getDirectoryLastModified
    \/ lc_cacheGet
    \/ lc_readdir
    \/ lc_readFiles

SpecListing == InitListing /\ [][NextListing]_vars

(* C13: a listFindings call on a project that exists from the start of the *)
(* call to its end returns the list, and every finding that no mutation    *)
(* has touched since the call started is in it as it is on disk, or not in *)
(* it if it is not on disk: the mutations completed before the call are    *)
(* reflected.                                                              *)
C13_ListReflectsMutations ==
    [][(lst.call.pc # "done" /\ lst'.call.pc = "done" /\ lst'.call.clean)
          => /\ lst'.call.res = "ok"
             /\ \A i \in FindingIds \ lst'.call.touched :
                    lst'.call.out[i] = recs'[i]]_vars

(***************************************************************************)
(* The sweep of lock artifacts next to the locks of the same process.      *)
(* Ages count units of 2.5 s.  lockfile.lock refreshes the mtime of the    *)
(* artifact it holds every stale/2 and takes over an artifact it finds     *)
(* older than stale.  cleanupStaleLocks reads the directory, then takes    *)
(* the artifacts one by one: fs.stat, the age test, fs.rm.                 *)
(***************************************************************************)
Unit == 2500

withLockStale == 10000 \div Unit           \* stale: 10000 of withLock
instanceStale == 30000 \div Unit           \* stale: 30000 of acquireInstanceLock
instanceStaleTimeout == 60000 \div Unit    \* 60000 of cleanupStaleLocks
lockStaleMsDefault == 60000 \div Unit      \* MCP_SECURITY_REPORT_LOCK_STALE_MS unset
lockStaleMsMin == 5000 \div Unit           \* the smallest value env.ts accepts
MaxAge == instanceStaleTimeout + 1         \* older makes no difference

(* The files in which the process takes a lock. *)
lockPath(lockKey) == workingDir \o <<".mcp-lock-" \o lockKey>>

LockedFiles == {instanceLockPath, lockPath("project-index")}

(* The names the sweep selects from the directory. *)
IsLockFile(f) ==
    f = workingDir \o <<".mcp-instance", ".lock">> \/ \E k \in {"project-index"} : f = getLockFile(lockPath(k))

StaleOf(file) == IF file = instanceLockPath THEN instanceStale ELSE withLockStale

(* const update = stale / 2 of lockfile.lock *)
UpdateOf(file) == StaleOf(file) \div 2

NoSweep == [pc |-> "idle", files |-> {}, cur |-> <<>>]

restSweep == <<now, faults, calls, indexFile, indexTmp, projDir, locks, cache, proc, last,
               recs, recTmp, hist, page, doc, lst>>

Exists(f) == inst.art[f].exists

(* lockfile.lock(file) creates the artifact, over one that is stale. *)
sweep_lock(file) ==
    /\ ~inst.holds[file]
    /\ ~Exists(file) \/ inst.art[file].age > StaleOf(file)
    /\ inst' = [inst EXCEPT !.holds[file] = TRUE,
                            !.art[file] = [exists |-> TRUE, age |-> 0]]
    /\ UNCHANGED restSweep

(* The refresh of a held artifact: fs.utimes at the update interval. *)
sweep_update(file) ==
    /\ inst.holds[file]
    /\ Exists(file)
    /\ inst.art[file].age >= UpdateOf(file)
    /\ inst' = [inst EXCEPT !.art[file].age = 0]
    /\ UNCHANGED restSweep

(* release(): the artifact is removed; a failure is logged or thrown. *)
sweep_release(file) ==
    /\ inst.holds[file]
    /\ inst' = [inst EXCEPT !.holds[file] = FALSE,
                            !.art[file] = [exists |-> FALSE, age |-> 0]]
    /\ UNCHANGED restSweep

(* 2.5 s pass.  A held artifact is refreshed within one unit of its due    *)
(* time.                                                                   *)
sweep_tick ==
    /\ \A f \in LockedFiles :
           inst.holds[f] /\ Exists(f) => inst.art[f].age <= UpdateOf(f)
    /\ \E f \in LockedFiles : Exists(f) /\ inst.art[f].age < MaxAge
    /\ inst' = [inst EXCEPT !.art = [f \in LockedFiles |->
                    IF Exists(f) /\ inst.art[f].age < MaxAge
                    THEN [inst.art[f] EXCEPT !.age = @ + 1]
                    ELSE inst.art[f]]]
    /\ UNCHANGED restSweep

(* fs.readdir(this.workingDir) and the filter on the names *)
cleanupStaleLocks_readdir ==
    /\ inst.sweep.pc = "idle"
    /\ inst' = [inst EXCEPT !.sweep =
                    [pc |-> "stat",
                     files |-> {getLockFile(f) : f \in {g \in LockedFiles :
                                   Exists(g) /\ IsLockFile(getLockFile(g))}},
                     cur |-> <<>>]]
    /\ UNCHANGED restSweep

(* The skip of the own instance lock, fs.stat and the age test of the next *)
(* name; a name that is gone throws and is passed over.                    *)
SkipsOwn(lockPath_) == lockPath_ = instanceLockPath /\ inst.holds[instanceLockPath]

staleTimeout(lockPath_) ==
    IF lockPath_ = getLockFile(instanceLockPath)
    THEN instanceStaleTimeout ELSE inst.lockStaleMs

cleanupStaleLocks_stat ==
    /\ inst.sweep.pc = "stat"
    /\ \E f \in LockedFiles :
          /\ getLockFile(f) \in inst.sweep.files
          /\ LET rest == inst.sweep.files \ {getLockFile(f)}
             IN inst' = [inst EXCEPT !.sweep =
                   IF ~SkipsOwn(getLockFile(f)) /\ Exists(f)
                      /\ inst.art[f].age > staleTimeout(getLockFile(f))
                   THEN [pc |-> "rm", files |-> rest, cur |-> f]
                   ELSE [pc |-> "stat", files |-> rest, cur |-> <<>>]]
    /\ UNCHANGED restSweep

(* fs.rm(lockPath, { recursive: true, force: true }) *)
cleanupStaleLocks_rm ==
    /\ inst.sweep.pc = "rm"
    /\ inst' = [inst EXCEPT !.art[inst.sweep.cur] = [exists |-> FALSE, age |-> 0],
                            !.sweep = [pc |-> "stat", files |-> inst.sweep.files,
                                       cur |-> <<>>]]
    /\ UNCHANGED restSweep

(* The loop is over. *)
cleanupStaleLocks_done ==
    /\ inst.sweep.pc = "stat"
    /\ inst.sweep.files = {}
    /\ inst' = [inst EXCEPT !.sweep = NoSweep]
    /\ UNCHANGED restSweep

(* A process that starts in a directory where an earlier process may have  *)
(* left artifacts of any age.                                              *)
InitSweep ==
    /\ now = 0
    /\ faults = 0
    /\ calls = 0
    /\ indexFile = FullFile(EmptyIndex)
    /\ indexTmp = NoFile
    /\ projDir = [n \in Projects |-> NoDir]
    /\ locks = [k \in LockKeys |-> "free"]
    /\ cache = [m \in Managers |-> Unloaded]
    /\ proc = [p \in Procs |-> IdleProc]
    /\ last = IdleProc
    /\ recs = NoRecs
    /\ recTmp = NoRecs
    /\ hist = NoHist
    /\ page = NoPage
    /\ doc = NoDoc
    /\ lst = NoLst
    /\ \E left \in SUBSET LockedFiles, ms \in {lockStaleMsDefault, lockStaleMsMin} :
           inst = [holds |-> [f \in LockedFiles |-> FALSE],
                   art |-> [f \in LockedFiles |->
                               IF f \in left THEN [exists |-> TRUE, age |-> 0]
                               ELSE [exists |-> FALSE, age |-> 0]],
                   lockStaleMs |-> ms,
                   sweep |-> NoSweep]

NextSweep ==
    \/ \E f \in LockedFiles : sweep_lock(f)
    \/ \E f \in LockedFiles : sweep_update(f)
    \/ \E f \in LockedFiles : sweep_release(f)
    \/ sweep_tick
    \/ cleanupStaleLocks_readdir
    \/ cleanupStaleLocks_stat
    \/ cleanupStaleLocks_rm
    \/ cleanupStaleLocks_done

SpecSweep == InitSweep /\ [][NextSweep]_vars

(* C14: the sweep never removes the artifact of a lock the process holds:  *)
(* whenever the instance lock or a resource lock is held, its artifact is  *)
(* in the directory.                                                       *)
C14_SweepKeepsHeldLocks ==
    \A f \in LockedFiles : inst.holds[f] => inst.art[f].exists

(***************************************************************************)
(* withLock, attempt by attempt.  lockfile.lock tries to create the        *)
(* artifact; when the artifact is there and not stale it retries after     *)
(* min(minTimeout * factor^n, maxTimeout), at most `retries` times, and    *)
(* then fails with 'Lock file is already being held', which withLock       *)
(* rethrows as 'Operation timed out waiting for lock'.  The lock may be    *)
(* held by a call of this process or by another process, which may keep    *)
(* it for ever or die and leave the artifact behind.                       *)
(***************************************************************************)
retries == 10
factor == 2
minTimeout == 100
maxTimeout == 3000

RECURSIVE Power(_, _)
Power(b, n) == IF n = 0 THEN 1 ELSE b * Power(b, n - 1)

(* The delay before retry number n + 1. *)
Backoff(n) == Min(minTimeout * Power(factor, n), maxTimeout)

CanRetryForever(n) == TRUE

(* retry.operation: another attempt after n failed retries? *)
CanRetry(n) == n < retries

Callers == Procs

NoLock == [st |-> "none", by |-> "none", stale |-> FALSE]

HeldBy(w) == [st |-> "held", by |-> w, stale |-> FALSE]

(* The artifact after release() failed, or after its holder died: nobody   *)
(* refreshes it.                                                           *)
LeftBy(w) == [st |-> "left", by |-> w, stale |-> FALSE]

KeptLock(a) == a

(* The artifact after release() removed it. *)
Released(a) == NoLock

IdleCall == [pc |-> "idle", attempt |-> 0, delay |-> 0, acquired |-> FALSE,
             released |-> FALSE, err |-> "none"]

restWithLock == <<now, indexFile, indexTmp, projDir, cache, last, recs, recTmp, hist, inst,
                  page, doc, lst>>

Artifact == locks[IndexKey]

(* mkdir of the artifact succeeds. *)
AcquirableIfAbsent == Artifact.st = "none"

(* mkdir of the artifact succeeds, or the artifact is stale and taken over *)
Acquirable == Artifact.st = "none" \/ (Artifact.st = "left" /\ Artifact.stale)

(* withLock(lockKey, operation) is called. *)
withLock(w) ==
    /\ proc[w].pc \in {"idle", "done"}
    /\ calls > 0
    /\ calls' = calls - 1
    /\ proc' = [proc EXCEPT ![w] = [IdleCall EXCEPT !.pc = "lock"]]
    /\ UNCHANGED <<locks, faults>>
    /\ UNCHANGED restWithLock

(* One attempt of lockfile.lock. *)
withLock_attempt(w) ==
    /\ proc[w].pc = "lock"
    /\ IF Acquirable
       THEN /\ locks' = [locks EXCEPT ![IndexKey] = HeldBy(w)]
            /\ proc' = [proc EXCEPT ![w].pc = "operation", ![w].acquired = TRUE]
       ELSE /\ locks' = locks
            /\ proc' = IF CanRetry(proc[w].attempt)
                       THEN [proc EXCEPT ![w].pc = "wait",
                                         ![w].delay = Backoff(proc[w].attempt)]
                       ELSE [proc EXCEPT ![w].pc = "done",
                                         ![w].err = "Operation timed out waiting for lock"]
    /\ UNCHANGED <<calls, faults>>
    /\ UNCHANGED restWithLock

(* The timer of the retry fires. *)
withLock_retry(w) ==
    /\ proc[w].pc = "wait"
    /\ proc' = [proc EXCEPT ![w].pc = "lock",
                            ![w].attempt = IF @ < retries THEN @ + 1 ELSE @]
    /\ UNCHANGED <<locks, calls, faults>>
    /\ UNCHANGED restWithLock

(* lockfile.lock fails for another reason: the error is rethrown as it is. *)
withLock_lockError(w) ==
    /\ proc[w].pc = "lock"
    /\ faults > 0
    /\ faults' = faults - 1
    /\ proc' = [proc EXCEPT ![w].pc = "done", ![w].err = "LockError"]
    /\ UNCHANGED <<locks, calls>>
    /\ UNCHANGED restWithLock

(* await operation() returns or throws. *)
withLock_operation(w) ==
    /\ proc[w].pc = "operation"
    /\ \E e \in {"none", "OperationFailed"} :
           proc' = [proc EXCEPT ![w].pc = "release", ![w].err = e]
    /\ UNCHANGED <<locks, calls, faults>>
    /\ UNCHANGED restWithLock

(* finally: await release() *)
withLock_release(w) ==
    /\ proc[w].pc = "release"
    /\ locks' = [locks EXCEPT ![IndexKey] = IF @.by = w THEN Released(@) ELSE @]
    /\ proc' = [proc EXCEPT ![w].pc = "done", ![w].released = TRUE]
    /\ UNCHANGED <<calls, faults>>
    /\ UNCHANGED restWithLock

(* release() throws: the error is logged and the artifact stays. *)
withLock_releaseError(w) ==
    /\ proc[w].pc = "release"
    /\ faults > 0
    /\ faults' = faults - 1
    /\ locks' = [locks EXCEPT ![IndexKey] = IF @.by = w THEN LeftBy(w) ELSE @]
    /\ proc' = [proc EXCEPT ![w].pc = "done"]
    /\ UNCHANGED calls
    /\ UNCHANGED restWithLock

(* Another process takes the lock, gives it back, or dies with it. *)
other_lock ==
    /\ Acquirable
    /\ locks' = [locks EXCEPT ![IndexKey] = HeldBy("other")]
    /\ UNCHANGED <<proc, calls, faults>>
    /\ UNCHANGED restWithLock

other_release ==
    /\ Artifact = HeldBy("other")
    /\ locks' = [locks EXCEPT ![IndexKey] = NoLock]
    /\ UNCHANGED <<proc, calls, faults>>
    /\ UNCHANGED restWithLock

other_dies ==
    /\ Artifact = HeldBy("other")
    /\ locks' = [locks EXCEPT ![IndexKey] = LeftBy("other")]
    /\ UNCHANGED <<proc, calls, faults>>
    /\ UNCHANGED restWithLock

(* An artifact nobody refreshes gets older than stale: 10000. *)
artifact_stale ==
    /\ Artifact.st = "left"
    /\ ~Artifact.stale
    /\ locks' = [locks EXCEPT ![IndexKey].stale = TRUE]
    /\ UNCHANGED <<proc, calls, faults>>
    /\ UNCHANGED restWithLock

InitWithLock ==
    /\ now = 0
    /\ faults = MaxFaults
    /\ calls = MaxWithLocks
    /\ indexFile = FullFile(EmptyIndex)
    /\ indexTmp = NoFile
    /\ projDir = [n \in Projects |-> NoDir]
    /\ locks \in [LockKeys -> {NoLock}]
    /\ cache = [m \in Managers |-> Unloaded]
    /\ proc = [w \in Callers |-> IdleCall]
    /\ last = IdleProc
    /\ recs = NoRecs
    /\ recTmp = NoRecs
    /\ hist = NoHist
    /\ inst = NoInst
    /\ page = NoPage
    /\ doc = NoDoc
    /\ lst = NoLst

NextWithLock ==
    \/ \E w \in Callers : withLock(w)
    \/ \E w \in Callers : withLock_attempt(w)
    \/ \E w \in Callers : withLock_retry(w)
    \/ \E w \in Callers : withLock_lockError(w)
    \/ \E w \in Callers : withLock_operation(w)
    \/ \E w \in Callers : withLock_release(w)
    \/ \E w \in Callers : withLock_releaseError(w)
    \/ other_lock
    \/ other_release
    \/ other_dies
    \/ artifact_stale

SpecWithLock == InitWithLock /\ [][NextWithLock]_vars

(* The attempts and the timers of lockfile.lock run to their end; nothing  *)
(* is assumed of the holder of the lock.                                   *)
SpecWithLockFair ==
    /\ SpecWithLock
    /\ \A w \in Callers : WF_vars(withLock_attempt(w))
    /\ \A w \in Callers : WF_vars(withLock_retry(w))

Waiting(w) == proc[w].pc \in {"lock", "wait"}

(* C15: every withLock call comes to the end of its wait for the lock, by  *)
(* acquiring it or by failing, whoever holds the lock and however long;    *)
(* it never makes more than `retries` retries, none after a delay above    *)
(* maxTimeout, and when the lock stayed busy it fails with 'Operation      *)
(* timed out waiting for lock'.                                            *)
C15_WithLockTerminates ==
    /\ \A w \in Callers : Waiting(w) ~> ~Waiting(w)
    /\ [](\A w \in Callers : proc[w].attempt <= retries /\ proc[w].delay <= maxTimeout)
    /\ [][\A w \in Callers :
            (Waiting(w) /\ ~Waiting(w)' /\ faults' = faults)
                => \/ proc'[w].pc = "operation" /\ locks'[IndexKey] = HeldBy(w)
                   \/ /\ proc'[w].err = "Operation timed out waiting for lock"
                      /\ proc[w].attempt = retries
                      /\ ~Acquirable]_vars

(* A call gave up after its last retry while the lock was held. *)
C15_Witness ==
    \E w \in Callers :
        /\ proc[w].pc = "done"
        /\ proc[w].err = "Operation timed out waiting for lock"
        /\ proc[w].attempt = retries
        /\ proc[w].delay = maxTimeout
        /\ Artifact.st = "held"

Returned_(w) == proc[w].pc = "done" /\ proc[w].acquired

(* C16 as stated: when a withLock call that had acquired the lock has      *)
(* returned or thrown, the lock is released: the artifact is not the one   *)
(* the call created.                                                       *)
C16_ReleasedAtReturn ==
    \A w \in Callers : Returned_(w) => Artifact.by # w

(* C16, amended: when a withLock call that had acquired the lock has       *)
(* returned or thrown, whether the operation succeeded or raised, the      *)
(* lock is no longer held by it; the artifact is gone unless release()     *)
(* itself failed, and then it is an artifact nobody refreshes, which a     *)
(* later withLock takes over once it is stale.                             *)
C16_ReleasedUnlessReleaseFails ==
    \A w \in Callers :
        Returned_(w) =>
            /\ Artifact # HeldBy(w)
            /\ proc[w].released => Artifact.by # w
            /\ Artifact.by = w => Artifact.st = "left"
            /\ (Artifact.by = w /\ Artifact.stale) => Acquirable

(* A call whose operation raised has returned, and a later call holds the  *)
(* lock.                                                                   *)
C16_Witness ==
    \E w \in Callers, v \in Callers :
        /\ v # w
        /\ Returned_(w)
        /\ proc[w].released
        /\ proc[w].err = "OperationFailed"
        /\ Artifact = HeldBy(v)
        /\ proc[v].pc = "operation"

(***************************************************************************)
(* The index is missing.  readProjectIndex, on ENOENT, runs                *)
(* checkForCorruptedDirectory before it returns an empty index;            *)
(* acquireInstanceLock runs initializeProjectIndex, which writes an empty  *)
(* index when there is none.  A path is a sequence of components, a        *)
(* directory name a sequence of characters.                                *)
(***************************************************************************)
DirNames == {<<"p">>, <<"q">>, <<"t", "m", "p", "q">>}

WorkingDirs == {<<"srv", "reports">>, <<"tmp", "reports">>}

StartsWith(s, prefix) == Len(s) >= Len(prefix) /\ SubSeq(s, 1, Len(prefix)) = prefix

(* this.workingDir.includes('tmp') ... process.env.VITEST === 'true' *)
SkipsCheck ==
    \/ \E j \in 1..Len(inst.wd) : inst.wd[j] \in {"tmp", "temp", "test"}
    \/ inst.testEnv

(* The entries the check takes for possible project directories. *)
projectLikeDirs ==
    {d \in DirNames :
        /\ inst.dirs[d] # "none"
        /\ ~StartsWith(d, <<".">>)
        /\ ~StartsWith(d, <<"t", "m", "p">>)
        /\ ~StartsWith(d, <<"t", "e", "m", "p">>)}

(* The subdirectories that have a project.json. *)
ProjectDirs == {d \in DirNames : inst.dirs[d] = "project"}

(* The state the claim is about. *)
Corrupted ==
    /\ indexFile = NoFile
    /\ ProjectDirs # {}
    /\ Cardinality(ProjectDirs) > 1 \/ inst.hasLockFiles

NoRun == [pc |-> "idle", op |-> "none", corrupted |-> FALSE, projects |-> {},
          todo |-> {}, actualProjectDirs |-> {}, res |-> "none", listed |-> {}]

restCorrupt == <<now, calls, indexTmp, projDir, locks, cache, proc, last, recs, recTmp, hist,
                 page, doc, lst>>

Run == inst.run

(* A call starts; what the directory is like is kept for the claim. *)
Started(op) ==
    [NoRun EXCEPT !.pc = op, !.op = op, !.corrupted = Corrupted, !.projects = ProjectDirs]

Finish(res, listed) ==
    inst' = [inst EXCEPT !.run.pc = "done", !.run.res = res, !.run.listed = listed,
                         !.projectIndexCache = IF res = "emptyIndex" THEN "empty"
                                               ELSE IF res = "index" THEN "read"
                                               ELSE inst.projectIndexCache]

(* The start-up of the server or of a CLI handler. *)
corrupt_acquireInstanceLock ==
    /\ Run.pc \in {"idle", "done"}
    /\ inst' = [inst EXCEPT !.run = Started("initializeProjectIndex")]
    /\ UNCHANGED <<indexFile, faults>>
    /\ UNCHANGED restCorrupt

(* initializeProjectIndex: fs.access, and the empty index written to the   *)
(* temporary file and renamed when there is no index.                      *)
corrupt_initializeProjectIndex ==
    /\ Run.pc = "initializeProjectIndex"
    /\ indexFile' = IF indexFile = NoFile THEN FullFile(EmptyIndex) ELSE indexFile
    /\ inst' = [inst EXCEPT !.run.pc = "lock",
                            !.projectIndexCache = IF indexFile = NoFile THEN "null" ELSE @]
    /\ UNCHANGED faults
    /\ UNCHANGED restCorrupt

(* lockfile.lock(this.instanceLockPath) creates '.mcp-instance.lock'. *)
corrupt_lock ==
    /\ Run.pc = "lock"
    /\ inst' = [inst EXCEPT !.run.pc = "done", !.run.res = "acquired",
                            !.hasLockFiles = TRUE]
    /\ UNCHANGED <<indexFile, faults>>
    /\ UNCHANGED restCorrupt

(* A storage operation reads the index. *)
corrupt_readProjectIndex ==
    /\ Run.pc \in {"idle", "done"}
    /\ inst' = [inst EXCEPT !.run = Started("readProjectIndex")]
    /\ UNCHANGED <<indexFile, faults>>
    /\ UNCHANGED restCorrupt

(* The snapshot, or fs.readFile; ENOENT goes to the check. *)
corrupt_readFile ==
    /\ Run.pc = "readProjectIndex"
    /\ IF inst.projectIndexCache # "null"
       THEN Finish(IF inst.projectIndexCache = "empty" THEN "emptyIndex" ELSE "index", {})
       ELSE IF indexFile # NoFile THEN Finish("index", {})
       ELSE inst' = [inst EXCEPT !.run.pc = "checkForCorruptedDirectory"]
    /\ UNCHANGED <<indexFile, faults>>
    /\ UNCHANGED restCorrupt

(* The check is skipped, or reads the directory. *)
corrupt_readdir ==
    /\ Run.pc = "checkForCorruptedDirectory"
    /\ IF SkipsCheck THEN Finish("emptyIndex", {})
       ELSE inst' = [inst EXCEPT !.run.pc = "access", !.run.todo = projectLikeDirs]
    /\ UNCHANGED <<indexFile, faults>>
    /\ UNCHANGED restCorrupt

(* fs.readdir fails: the error is logged and the empty index returned. *)
corrupt_readdirError ==
    /\ Run.pc = "checkForCorruptedDirectory"
    /\ ~SkipsCheck
    /\ faults > 0
    /\ faults' = faults - 1
    /\ Finish("emptyIndex", {})
    /\ UNCHANGED indexFile
    /\ UNCHANGED restCorrupt

(* fs.access(project.json) of the next directory *)
corrupt_access ==
    /\ Run.pc = "access"
    /\ \E d \in Run.todo :
           inst' = [inst EXCEPT !.run.todo = @ \ {d},
                                !.run.actualProjectDirs =
                                    IF inst.dirs[d] = "project" THEN @ \cup {d} ELSE @]
    /\ UNCHANGED <<indexFile, faults>>
    /\ UNCHANGED restCorrupt

(* The test on what was found: the fatal error, or the empty index. *)
corrupt_decide ==
    /\ Run.pc = "access"
    /\ Run.todo = {}
    /\ IF /\ Cardinality(Run.actualProjectDirs) > 0
          /\ inst.hasLockFiles \/ Cardinality(Run.actualProjectDirs) > 1
       THEN Finish("FATAL", Run.actualProjectDirs)
       ELSE Finish("emptyIndex", {})
    /\ UNCHANGED <<indexFile, faults>>
    /\ UNCHANGED restCorrupt

InitCorrupt ==
    /\ now = 0
    /\ faults = MaxFaults
    /\ calls = 0
    /\ indexFile \in {NoFile, FullFile(EmptyIndex)}
    /\ indexTmp = NoFile
    /\ projDir = [n \in Projects |-> NoDir]
    /\ locks = [k \in LockKeys |-> "free"]
    /\ cache = [m \in Managers |-> Unloaded]
    /\ proc = [p \in Procs |-> IdleProc]
    /\ last = IdleProc
    /\ recs = NoRecs
    /\ recTmp = NoRecs
    /\ hist = NoHist
    /\ page = NoPage
    /\ doc = NoDoc
    /\ lst = NoLst
    /\ \E wd \in WorkingDirs, env \in BOOLEAN, lf \in BOOLEAN,
          ds \in [DirNames -> {"none", "directory", "project"}] :
           inst = [wd |-> wd, testEnv |-> env, hasLockFiles |-> lf, dirs |-> ds,
                   projectIndexCache |-> "null", run |-> NoRun]

NextCorrupt ==
    \/ corrupt_acquireInstanceLock
    \/ corrupt_initializeProjectIndex
    \/ corrupt_lock
    \/ corrupt_readProjectIndex
    \/ corrupt_readFile
    \/ corrupt_readdir
    \/ corrupt_readdirError
    \/ corrupt_access
    \/ corrupt_decide

SpecCorrupt == InitCorrupt /\ [][NextCorrupt]_vars

(* C17: a read or an initialization of the index that starts with the      *)
(* index missing, project subdirectories present and more than one of them *)
(* or a lock artifact, ends with the fatal error that lists those          *)
(* projects, and leaves no empty index behind.                             *)
C17_CorruptionIsFatal ==
    (Run.pc = "done" /\ Run.corrupted) =>
        /\ Run.res = "FATAL"
        /\ Run.listed = Run.projects
        /\ indexFile = NoFile

(***************************************************************************)
(* Lost updates of the index.                                              *)
(***************************************************************************)

(* C18: no index update of a call is lost to the read-modify-write of      *)
(* another call: a call installs the index it read with the entry of its   *)
(* own project changed, so every step that changes the on-disk index       *)
(* changes the entry of one project and leaves those of the others, which  *)
(* earlier calls wrote, as they are.                                       *)
C18_NoLostUpdate ==
    [][indexFile'.data # indexFile.data
          => \E n \in Projects :
                 \A m \in Projects \ {n} : indexFile'.data[m] = indexFile.data[m]]_vars

(***************************************************************************)
(* The finding file under updateFinding and getFinding, system call by     *)
(* system call.  A path names an inode; fs.writeFile opens the temporary   *)
(* path (creating the file or truncating the one that is there) and        *)
(* writes the content block by block into the inode it opened;             *)
(* fs.rename makes the finding path name the inode of the temporary path;  *)
(* fs.readFile opens the finding path and reads the inode it opened.       *)
(* updateFinding holds the lock `finding-${projectName}-${findingId}`.     *)
(***************************************************************************)
Blocks == 2

Inodes == 1..(MaxUpdates + 1)

(* The content of a file all of whose blocks were written by update v;     *)
(* 0 is the content before the updates.                                    *)
Whole(v) == [b \in 1..Blocks |-> v]

findingId == "f1"

lockKey(projectName) == <<"finding">> \o projectName \o <<findingId>>

IdleIo == [pc |-> "idle", op |-> "none", name |-> <<>>, v |-> 0, fd |-> 0, pos |-> 0,
           out |-> <<>>, err |-> "none"]

Clients == {"u1", "u2", "g"}

restAtomic == <<now, faults, indexFile, indexTmp, projDir, cache, last, recTmp, hist, inst,
                page, doc, lst>>

(* The blocks a write skipped over in a file that was truncated under it. *)
Hole == 0 - 1

(* fs.writeFile into the inode of descriptor fd at block pos. *)
WriteBlock(content, pos, v) ==
    [b \in 1..(IF Len(content) > pos THEN Len(content) ELSE pos) |->
        IF b = pos THEN v ELSE IF b <= Len(content) THEN content[b] ELSE Hole]

(* updateFinding(projectName, findingId, updates) is called. *)
atomic_updateFinding(c, n) ==
    /\ proc[c].pc = "idle"
    /\ calls.updates > 0
    /\ calls' = [calls EXCEPT !.updates = @ - 1]
    /\ proc' = [proc EXCEPT ![c] = [IdleIo EXCEPT !.pc = "lock", !.op = "updateFinding",
                                                  !.name = n,
                                                  !.v = MaxUpdates + 1 - calls.updates]]
    /\ UNCHANGED <<recs, locks>>
    /\ UNCHANGED restAtomic

(* lockfile.lock on the key of the name as it was spelled *)
atomic_lock(c) ==
    /\ proc[c].pc = "lock"
    /\ locks[lockKey(proc[c].name)] = "free"
    /\ locks' = [locks EXCEPT ![lockKey(proc[c].name)] = c]
    /\ proc' = [proc EXCEPT ![c].pc = "existing"]
    /\ UNCHANGED <<recs, calls>>
    /\ UNCHANGED restAtomic

(* const existing = await this.getFinding(...), and the completed check *)
atomic_existing(c) ==
    /\ proc[c].pc = "existing"
    /\ proc' = [proc EXCEPT ![c].pc = "open"]
    /\ UNCHANGED <<recs, locks, calls>>
    /\ UNCHANGED restAtomic

(* fs.writeFile(tempPath, content): open with O_CREAT | O_TRUNC *)
atomic_writeFile_open(c) ==
    /\ proc[c].pc = "open"
    /\ LET i == IF recs.temp # 0 THEN recs.temp ELSE recs.free
       IN /\ recs' = [recs EXCEPT !.temp = i,
                                  !.free = IF recs.temp # 0 THEN @ ELSE @ + 1,
                                  !.inode[i] = <<>>]
          /\ proc' = [proc EXCEPT ![c].pc = "write", ![c].fd = i, ![c].pos = 1]
    /\ UNCHANGED <<locks, calls>>
    /\ UNCHANGED restAtomic

(* fs.writeFile: the next block goes into the file that was opened *)
atomic_writeFile_write(c) ==
    /\ proc[c].pc = "write"
    /\ recs' = [recs EXCEPT !.inode[proc[c].fd] = WriteBlock(@, proc[c].pos, proc[c].v)]
    /\ proc' = [proc EXCEPT ![c].pos = @ + 1,
                            ![c].pc = IF proc[c].pos = Blocks THEN "rename" ELSE "write"]
    /\ UNCHANGED <<locks, calls>>
    /\ UNCHANGED restAtomic

(* fs.rename(tempPath, findingPath); ENOENT goes to the catch, which       *)
(* unlinks the temporary path and throws.                                  *)
atomic_rename(c) ==
    /\ proc[c].pc = "rename"
    /\ IF recs.temp = 0
       THEN /\ recs' = recs
            /\ proc' = [proc EXCEPT ![c].pc = "release", ![c].err = "Failed to update finding"]
       ELSE /\ recs' = [recs EXCEPT !.finding = recs.temp, !.temp = 0]
            /\ proc' = [proc EXCEPT ![c].pc = "release"]
    /\ UNCHANGED <<locks, calls>>
    /\ UNCHANGED restAtomic

(* updateProject and invalidateCache do not touch the file; release() *)
atomic_release(c) ==
    /\ proc[c].pc = "release"
    /\ locks' = [locks EXCEPT ![lockKey(proc[c].name)] = "free"]
    /\ proc' = [proc EXCEPT ![c] = IdleIo]
    /\ UNCHANGED <<recs, calls>>
    /\ UNCHANGED restAtomic

(* getFinding(projectName, findingId) is called; it takes no lock. *)
atomic_getFinding(c) ==
    /\ proc[c].pc \in {"idle", "read"}
    /\ calls.reads > 0
    /\ calls' = [calls EXCEPT !.reads = @ - 1]
    /\ proc' = [proc EXCEPT ![c] = [IdleIo EXCEPT !.pc = "readOpen", !.op = "getFinding"]]
    /\ UNCHANGED <<recs, locks>>
    /\ UNCHANGED restAtomic

(* fs.readFile(findingPath): open *)
atomic_readFile_open(c) ==
    /\ proc[c].pc = "readOpen"
    /\ proc' = [proc EXCEPT ![c].pc = "readData", ![c].fd = recs.finding]
    /\ UNCHANGED <<recs, locks, calls>>
    /\ UNCHANGED restAtomic

(* fs.readFile: the content of the file that was opened *)
atomic_readFile_read(c) ==
    /\ proc[c].pc = "readData"
    /\ proc' = [proc EXCEPT ![c].pc = "read", ![c].out = recs.inode[proc[c].fd]]
    /\ UNCHANGED <<recs, locks, calls>>
    /\ UNCHANGED restAtomic

InitAtomic ==
    /\ now = 0
    /\ faults = 0
    /\ calls = [updates |-> MaxUpdates, reads |-> MaxReads]
    /\ indexFile = FullFile(Index0)
    /\ indexTmp = NoFile
    /\ projDir = [n \in Projects |-> IF n = P0 THEN FullDir(Meta0) ELSE NoDir]
    /\ locks = [k \in LockKeys |-> "free"]
    /\ cache = [m \in Managers |-> Unloaded]
    /\ proc = [c \in Clients |-> IdleIo]
    /\ last = IdleProc
    /\ recs = [finding |-> 1, temp |-> 0, free |-> 2,
               inode |-> [i \in Inodes |-> IF i = 1 THEN Whole(0) ELSE <<>>]]
    /\ recTmp = NoRecs
    /\ hist = NoHist
    /\ inst = NoInst
    /\ page = NoPage
    /\ doc = NoDoc
    /\ lst = NoLst

NextAtomic ==
    \/ \E c \in Clients, n \in NamesRecord : atomic_updateFinding(c, n)
    \/ \E c \in Clients : atomic_lock(c)
    \/ \E c \in Clients : atomic_existing(c)
    \/ \E c \in Clients : atomic_writeFile_open(c)
    \/ \E c \in Clients : atomic_writeFile_write(c)
    \/ \E c \in Clients : atomic_rename(c)
    \/ \E c \in Clients : atomic_release(c)
    \/ \E c \in Clients : atomic_getFinding(c)
    \/ \E c \in Clients : atomic_readFile_open(c)
    \/ \E c \in Clients : atomic_readFile_read(c)

SpecAtomic == InitAtomic /\ [][NextAtomic]_vars

(* C19: what a getFinding reads while findings are updated is a complete   *)
(* record, the one before the updates or the one an update wrote: never a  *)
(* file with blocks missing or with blocks of different writes.            *)
C19_ReadsWholeRecord ==
    \A c \in Clients :
        proc[c].pc = "read" => \E v \in 0..MaxUpdates : proc[c].out = Whole(v)

(***************************************************************************)
(* Rounds of acquireInstanceLock and releaseInstanceLock (SpecInstance).   *)
(***************************************************************************)

(* j's lockfile.lock in acquireInstanceLock ends with this step, which is  *)
(* not the death of the process.                                           *)
LockAttemptEnds(j) ==
    /\ Mgr(j).pc = "a_lock"
    /\ inst'.mgr[j].pc # "a_lock"
    /\ faults' = faults

(* The last holder of the lock was i and it has called                     *)
(* releaseInstanceLock.                                                    *)
ReleasedBy(i) ==
    /\ Mgr(i).pc = "down"
    /\ \/ Mgr(i).res = ReleasedMsg /\ inst.art.st = "none"
       \/ Mgr(i).res = ReleaseFailedMsg /\ inst.art.st = "orphan" /\ inst.art.owner = i

(* C20 as stated: after the holder has called releaseInstanceLock, the     *)
(* acquireInstanceLock of another StorageManager succeeds.                 *)
C20_AcquireAfterRelease ==
    [][\A i, j \in Instances :
          (i # j /\ ReleasedBy(i) /\ LockAttemptEnds(j))
              => inst'.mgr[j].pc = "up" /\ inst'.art = HeldArtifact(j)]_vars

(* C20, amended: a releaseInstanceLock that does not fail removes the      *)
(* artifact, and after it the acquireInstanceLock of another               *)
(* StorageManager succeeds, round after round: it finds the index, goes    *)
(* on to lockfile.lock and gets the lock; after a release that failed it   *)
(* gets the lock once the artifact is stale.                               *)
C20_AcquireAfterSuccessfulRelease ==
    /\ [][\A i \in Instances :
             (Mgr(i).pc = "up" /\ inst'.mgr[i].pc = "down" /\ faults' = faults)
                 => inst'.art.st = "none" /\ inst'.mgr[i].res = ReleasedMsg]_vars
    /\ [][\A i, j \in Instances :
             (/\ i # j
              /\ ReleasedBy(i)
              /\ Mgr(i).res = ReleasedMsg \/ inst.art.age >= 1
              /\ LockAttemptEnds(j))
                 => inst'.mgr[j].pc = "up" /\ inst'.art = HeldArtifact(j)]_vars
    /\ [][\A i, j \in Instances :
             (/\ i # j
              /\ ReleasedBy(i)
              /\ Mgr(j).pc \in {"a_mkdir", "a_access"}
              /\ inst'.mgr[j] # Mgr(j)
              /\ faults' = faults)
                 => inst'.mgr[j].pc \in {"a_access", "a_lock"}]_vars

(* The second round: a process holds the lock that another held and        *)
(* released, and has released a lock itself before.                        *)
C20_Witness ==
    \E i, j \in Instances :
        /\ i # j
        /\ Mgr(i).pc = "down"
        /\ Mgr(i).res = ReleasedMsg
        /\ Mgr(j).pc = "up"
        /\ inst.art = HeldArtifact(j)

(***************************************************************************)
(* The CVSS score of a finding.  createFinding evaluates input.cvssString  *)
(* after getProject and the completed guard and before withLock;           *)
(* updateFinding evaluates updates.cvssString under the lock, after        *)
(* getFinding and the completed guard and before the write.  A vector      *)
(* string is a sequence of characters: a blank, or a letter that stands    *)
(* for a vector ("H" and "L" are valid vectors, "Z" is a valid vector      *)
(* whose base score is 0, "X" is no vector).  A score is a number of       *)
(* tenths.  The finding file is its front matter, reduced to the two CVSS  *)
(* fields.                                                                 *)
(***************************************************************************)
MaxCvssCalls == 2

Vectors == {<<>>, <<" ">>, <<"X">>, <<"Z">>, <<"H">>, <<" ", "L">>}

(* cvssInstance.calculateScores().base of ae-cvss-calculator; the library  *)
(* throws on a string that is no vector.                                   *)
LibraryThrows(cleanVector) == cleanVector \notin {<<"Z">>, <<"H">>, <<"L">>}

LibraryBase(cleanVector) ==
    CASE cleanVector = <<"H">> -> 98
      [] cleanVector = <<"L">> -> 31
      [] OTHER -> 0

Threw == [ok |-> FALSE, score |-> 0]

(* calculateCVSSScore(vector): a CVSSError, or the base score. *)
calculateCVSSScore(vector) ==
    LET cleanVector == TrimText(vector)
    IN IF cleanVector = <<>> THEN Threw
       ELSE IF LibraryThrows(cleanVector) THEN Threw
       ELSE IF LibraryBase(cleanVector) = 0 THEN Threw
       ELSE [ok |-> TRUE, score |-> LibraryBase(cleanVector)]

NotEvaluated(cvssString) == FALSE

(* `if (input.cvssString)` *)
Evaluated(cvssString) == Truthy(cvssString)

NoScore(cvssString, cvssResult) == Undefined

(* finding.cvssScore: cvssResult.score when the vector was evaluated,      *)
(* undefined when it was not.                                              *)
NewScore(cvssString, cvssResult) ==
    IF Evaluated(cvssString) THEN Some(cvssResult.score) ELSE Undefined

CvssFields == {"cvssString", "cvssScore"}

NoCvss == [cvssString |-> Undefined, cvssScore |-> Undefined]

(* A finding file: absent, or the front matter written to it. *)
NoFinding == [exists |-> FALSE, data |-> <<>>]

StoredFinding(f) == [exists |-> TRUE, data |-> FrontMatter(CvssFields, f)]

(* The CVSS fields getFinding returns for a file. *)
ReadCvss(file) ==
    [cvssString |-> Data(file.data, "cvssString"),
     cvssScore |-> Data(file.data, "cvssScore")]

(* The arguments of a call: for createFinding input.cvssString, for        *)
(* updateFinding whether updates has the key cvssString (has) and its      *)
(* value.                                                                  *)
IdleCvss ==
    [op |-> "idle", pc |-> "idle", name |-> <<>>, id |-> "none", has |-> FALSE,
     cvssString |-> Undefined, f |-> NoCvss, err |-> "none"]

CvssClients == {"k1", "k2"}

(* The ids of the findings of these behaviours. *)
CvssIds == {"f1"}

CvssNames == {<<"p">>, <<"q">>}

CvssKey(r) == <<"finding">> \o r.name \o <<r.id>>

(* History: an updateFinding was given the key cvssString with the value   *)
(* undefined.                                                              *)
NoCvssHist == [undefinedKey |-> FALSE]

restCvss == <<faults, indexTmp, projDir, cache, inst, page, doc, lst>>

(* The call of c ends: it returns when err is "none", it throws otherwise. *)
CvssReturn(c, r) ==
    /\ proc' = [proc EXCEPT ![c] = IdleCvss]
    /\ last' = [r EXCEPT !.pc = "done"]

(* createFinding(projectName, input) is called; the id is the one         *)
(* sanitizeFindingId will give.                                           *)
cvss_createFinding(c, n, i, v) ==
    /\ proc[c].pc = "idle"
    /\ calls > 0
    /\ calls' = calls - 1
    /\ proc' = [proc EXCEPT ![c] = [IdleCvss EXCEPT !.op = "createFinding",
                                                    !.pc = "c_getProject", !.name = n,
                                                    !.id = i, !.has = TRUE,
                                                    !.cvssString = v]]
    /\ UNCHANGED <<now, indexFile, locks, last, recs, recTmp>>
    /\ UNCHANGED hist
    /\ UNCHANGED restCvss

(* updateFinding(projectName, findingId, updates) is called; updates has  *)
(* the key cvssString (h) with the value v, or it has not.                 *)
cvss_updateFinding(c, n, i, h, v) ==
    /\ proc[c].pc = "idle"
    /\ h \/ v = Undefined
    /\ calls > 0
    /\ calls' = calls - 1
    /\ proc' = [proc EXCEPT ![c] = [IdleCvss EXCEPT !.op = "updateFinding",
                                                    !.pc = "u_lock", !.name = n,
                                                    !.id = i, !.has = h,
                                                    !.cvssString = v]]
    /\ hist' = [undefinedKey |-> hist.undefinedKey \/ (h /\ v = Undefined)]
    /\ UNCHANGED <<now, indexFile, locks, last, recs, recTmp>>
    /\ UNCHANGED restCvss

(* await this.getProject(projectName), of createFinding and of the         *)
(* getFinding of updateFinding.                                            *)
cvss_getProject(c) ==
    /\ proc[c].pc \in {"c_getProject", "u_getProject"}
    /\ LET r == proc[c]
       IN IF indexFile.data[sanitizeProjectName(r.name)].present
          THEN /\ proc' = [proc EXCEPT ![c].pc = IF r.op = "createFinding" THEN "c_check"
                                                 ELSE "u_readFile"]
               /\ last' = last
          ELSE IF r.op = "createFinding"
          THEN CvssReturn(c, [r EXCEPT !.err = "ProjectNotFound"])
          ELSE /\ proc' = [proc EXCEPT ![c].pc = "release", ![c].err = "ProjectNotFound"]
               /\ last' = last
    /\ UNCHANGED <<now, calls, indexFile, locks, recs, recTmp>>
    /\ UNCHANGED hist
    /\ UNCHANGED restCvss

(* createFinding: checkProjectNotCompleted, then the finding is built and  *)
(* its vector evaluated.                                                   *)
cvss_createFinding_check(c) ==
    /\ proc[c].pc = "c_check"
    /\ LET r == proc[c]
           cvssResult == calculateCVSSScore(r.cvssString.v)
       IN IF indexFile.data[sanitizeProjectName(r.name)].status = "completed"
          THEN CvssReturn(c, [r EXCEPT !.err = "ProjectCompleted"])
          ELSE IF Evaluated(r.cvssString) /\ ~cvssResult.ok
          THEN CvssReturn(c, [r EXCEPT !.err = "InvalidCvss"])
          ELSE /\ proc' = [proc EXCEPT
                              ![c].pc = "c_lock",
                              ![c].f = [cvssString |-> r.cvssString,
                                        cvssScore |-> NewScore(r.cvssString, cvssResult)]]
               /\ last' = last
    /\ UNCHANGED <<now, calls, indexFile, locks, recs, recTmp>>
    /\ UNCHANGED hist
    /\ UNCHANGED restCvss

(* withLock(`finding-${projectName}-${id}`): lockfile.lock *)
cvss_lock(c) ==
    /\ proc[c].pc \in {"c_lock", "u_lock"}
    /\ locks[CvssKey(proc[c])] = "free"
    /\ locks' = [locks EXCEPT ![CvssKey(proc[c])] = c]
    /\ proc' = [proc EXCEPT ![c].pc = IF proc[c].op = "createFinding" THEN "c_access"
                                      ELSE "u_getProject"]
    /\ UNCHANGED <<now, calls, indexFile, last, recs, recTmp>>
    /\ UNCHANGED hist
    /\ UNCHANGED restCvss

(* The lock stays held through the retries of lockfile.lock. *)
cvss_lockTimeout(c) ==
    /\ proc[c].pc \in {"c_lock", "u_lock"}
    /\ locks[CvssKey(proc[c])] # "free"
    /\ CvssReturn(c, [proc[c] EXCEPT !.err = "LockTimeout"])
    /\ UNCHANGED <<now, calls, indexFile, locks, recs, recTmp>>
    /\ UNCHANGED hist
    /\ UNCHANGED restCvss

(* createFinding: fs.access(findingPath) *)
cvss_access(c) ==
    /\ proc[c].pc = "c_access"
    /\ proc' = IF recs[proc[c].id].exists
               THEN [proc EXCEPT ![c].pc = "release", ![c].err = "AlreadyExists"]
               ELSE [proc EXCEPT ![c].pc = "writeFile"]
    /\ UNCHANGED <<now, calls, indexFile, locks, last, recs, recTmp>>
    /\ UNCHANGED hist
    /\ UNCHANGED restCvss

(* getFinding: fs.readFile(findingPath) and the parse of its front matter *)
cvss_readFile(c) ==
    /\ proc[c].pc = "u_readFile"
    /\ proc' = IF recs[proc[c].id].exists
               THEN [proc EXCEPT ![c].pc = "u_check", ![c].f = ReadCvss(recs[proc[c].id])]
               ELSE [proc EXCEPT ![c].pc = "release", ![c].err = "FindingNotFound"]
    /\ UNCHANGED <<now, calls, indexFile, locks, last, recs, recTmp>>
    /\ UNCHANGED hist
    /\ UNCHANGED restCvss

(* `{...existing, ...updates}`: a key of updates replaces the field, also  *)
(* when its value is undefined.                                            *)
Spread(existing, r) ==
    [existing EXCEPT !.cvssString = IF r.has THEN r.cvssString ELSE @]

(* updateFinding: checkProjectNotCompleted, then the merge of the updates  *)
(* and the evaluation of updates.cvssString.                               *)
cvss_updateFinding_check(c) ==
    /\ proc[c].pc = "u_check"
    /\ LET r == proc[c]
           updated == Spread(r.f, r)
           given == r.has /\ r.cvssString.present
           cvssResult == calculateCVSSScore(r.cvssString.v)
       IN proc' =
            IF indexFile.data[sanitizeProjectName(r.name)].status = "completed"
            THEN [proc EXCEPT ![c].pc = "release", ![c].err = "ProjectCompleted"]
            ELSE IF given /\ Evaluated(r.cvssString) /\ ~cvssResult.ok
            THEN [proc EXCEPT ![c].pc = "release", ![c].err = "InvalidCvss"]
            ELSE [proc EXCEPT
                     ![c].pc = "writeFile",
                     ![c].f = IF ~given THEN updated
                              ELSE [updated EXCEPT
                                      !.cvssScore = NewScore(r.cvssString, cvssResult)]]
    /\ UNCHANGED <<now, calls, indexFile, locks, last, recs, recTmp>>
    /\ UNCHANGED hist
    /\ UNCHANGED restCvss

(* fs.writeFile(tempPath, content) *)
cvss_writeFile(c) ==
    /\ proc[c].pc = "writeFile"
    /\ recTmp' = [recTmp EXCEPT ![proc[c].id] = StoredFinding(proc[c].f)]
    /\ proc' = [proc EXCEPT ![c].pc = "rename"]
    /\ UNCHANGED <<now, calls, indexFile, locks, last, recs>>
    /\ UNCHANGED hist
    /\ UNCHANGED restCvss

(* fs.rename(tempPath, findingPath) *)
cvss_rename(c) ==
    /\ proc[c].pc = "rename"
    /\ recs' = [recs EXCEPT ![proc[c].id] = recTmp[proc[c].id]]
    /\ recTmp' = [recTmp EXCEPT ![proc[c].id] = NoFinding]
    /\ proc' = [proc EXCEPT ![c].pc = "updateProject"]
    /\ UNCHANGED <<now, calls, indexFile, locks, last>>
    /\ UNCHANGED hist
    /\ UNCHANGED restCvss

(* await this.updateProject(projectName, {}): the index entry gets a new   *)
(* `updated`; then invalidateCache.                                        *)
cvss_updateProject(c) ==
    /\ proc[c].pc = "updateProject"
    /\ \E t \in Dates :
           /\ now' = t
           /\ indexFile' = [indexFile EXCEPT
                               !.data[sanitizeProjectName(proc[c].name)].updated = t]
    /\ proc' = [proc EXCEPT ![c].pc = "release"]
    /\ UNCHANGED <<calls, locks, last, recs, recTmp>>
    /\ UNCHANGED hist
    /\ UNCHANGED restCvss

(* The finally block of withLock: release(), then return or rethrow. *)
cvss_release(c) ==
    /\ proc[c].pc = "release"
    /\ locks' = [locks EXCEPT ![CvssKey(proc[c])] = "free"]
    /\ CvssReturn(c, proc[c])
    /\ UNCHANGED <<now, calls, indexFile, recs, recTmp>>
    /\ UNCHANGED hist
    /\ UNCHANGED restCvss

CvssKeys == {<<"finding">> \o n \o <<i>> : n \in CvssNames, i \in CvssIds}

(* The project p exists, in progress or completed; it has no finding or    *)
(* one that createFinding made.                                            *)
InitCvss ==
    /\ now = 0
    /\ faults = 0
    /\ calls = MaxCvssCalls
    /\ \E st \in {"in-progress", "completed"} :
           indexFile = FullFile([EmptyIndex EXCEPT ![P0] = NewMeta(st, 0)])
    /\ indexTmp = NoFile
    /\ projDir = [n \in Projects |-> IF n = P0 THEN FullDir(Meta0) ELSE NoDir]
    /\ locks = [k \in CvssKeys |-> "free"]
    /\ cache = [m \in Managers |-> Unloaded]
    /\ proc = [c \in CvssClients |-> IdleCvss]
    /\ last = IdleCvss
    /\ recs \in {[i \in CvssIds |-> NoFinding],
                 [i \in CvssIds |->
                     IF i = "f1"
                     THEN StoredFinding([cvssString |-> Some(<<"H">>),
                                         cvssScore |-> Some(98)])
                     ELSE NoFinding]}
    /\ recTmp = [i \in CvssIds |-> NoFinding]
    /\ hist = NoCvssHist
    /\ inst = NoInst
    /\ page = NoPage
    /\ doc = NoDoc
    /\ lst = NoLst

NextCvss ==
    \/ \E c \in CvssClients, n \in CvssNames, i \in CvssIds :
           \E v \in {Undefined} \cup {Some(s) : s \in Vectors} : cvss_createFinding(c, n, i, v)
    \/ \E c \in CvssClients, n \in CvssNames, i \in CvssIds, h \in BOOLEAN :
           \E v \in {Undefined} \cup {Some(s) : s \in Vectors} :
               cvss_updateFinding(c, n, i, h, v)
    \/ \E c \in CvssClients : cvss_getProject(c)
    \/ \E c \in CvssClients : cvss_createFinding_check(c)
    \/ \E c \in CvssClients : cvss_lock(c)
    \/ \E c \in CvssClients : cvss_lockTimeout(c)
    \/ \E c \in CvssClients : cvss_access(c)
    \/ \E c \in CvssClients : cvss_readFile(c)
    \/ \E c \in CvssClients : cvss_updateFinding_check(c)
    \/ \E c \in CvssClients : cvss_writeFile(c)
    \/ \E c \in CvssClients : cvss_rename(c)
    \/ \E c \in CvssClients : cvss_updateProject(c)
    \/ \E c \in CvssClients : cvss_release(c)

SpecCvss == InitCvss /\ [][NextCvss]_vars

(* The call r was given a non-empty cvssString that calculateCVSSScore     *)
(* rejects.                                                                *)
Rejected(r) ==
    /\ r.op \in {"createFinding", "updateFinding"}
    /\ r.has
    /\ Truthy(r.cvssString)
    /\ ~calculateCVSSScore(r.cvssString.v).ok

(* The errors of the steps that come before the evaluation of the vector. *)
EarlierErrors(op) ==
    IF op = "createFinding" THEN {"ProjectNotFound", "ProjectCompleted"}
    ELSE {"LockTimeout", "ProjectNotFound", "FindingNotFound", "ProjectCompleted"}

ScoreDerived(i) ==
    recs[i].exists =>
        LET f == ReadCvss(recs[i])
        IN /\ f.cvssScore.present <=> Truthy(f.cvssString)
           /\ f.cvssScore.present =>
                  /\ calculateCVSSScore(f.cvssString.v).ok
                  /\ f.cvssScore.v = calculateCVSSScore(f.cvssString.v).score

MaxMutateCalls == 2

MutClients == {"m1", "m2"}

MutIds == {"f1", "a1"}

MutNames == {<<"p">>, <<"q">>}

MutOps == {"createFinding", "updateFinding", "deleteFinding", "createAuditTrail"}

IdleMut ==
    [op |-> "idle", pc |-> "idle", name |-> <<>>, id |-> "none", before |-> 0, t |-> 0,
     steps |-> <<>>, err |-> "none"]

(* The pcs of a mutation in the order of the code, from the call to the    *)
(* release of the record lock.                                             *)
UpdateProjectPcs == <<"updateProject_lock", "updateProject_write", "updateProject_release">>

LockFirst(op) ==
    <<"lock", "getProject", "readFile", "check", "writeFile", "rename">>
        \o UpdateProjectPcs \o <<"invalidateCache", "release">>

Pcs(op) ==
    CASE op = "createFinding" ->
           <<"getProject", "check", "lock", "access", "writeFile", "rename">>
               \o UpdateProjectPcs \o <<"invalidateCache", "release">>
      [] op = "createAuditTrail" ->
           <<"getProject", "check", "lock", "access", "ensureDirectory", "writeFile",
             "rename">> \o UpdateProjectPcs \o <<"invalidateCache", "release">>
      [] op = "updateFinding" ->
           <<"lock", "getProject", "readFile", "check", "writeFile", "rename">>
               \o UpdateProjectPcs \o <<"invalidateCache", "release">>
      [] OTHER ->
           <<"lock", "getProject", "readFile", "check", "unlink">>
               \o UpdateProjectPcs \o <<"invalidateCache", "release">>

(* The pc that follows pc in the code of op. *)
Then(op, pc) ==
    LET k == CHOOSE j \in 1..Len(Pcs(op)) : Pcs(op)[j] = pc
    IN IF k = Len(Pcs(op)) THEN "idle" ELSE Pcs(op)[k + 1]

(* The step of the mutation a pc belongs to; "none" for the fs calls that  *)
(* only look at the record.                                                *)
StepOf(pc) ==
    CASE pc = "getProject" -> "exists"
      [] pc = "check" -> "guard"
      [] pc = "lock" -> "lock"
      [] pc \in {"writeFile", "rename", "unlink"} -> "write"
      [] pc \in {"updateProject_lock", "updateProject_write", "updateProject_release"} -> "bump"
      [] pc = "invalidateCache" -> "invalidate"
      [] pc = "release" -> "release"
      [] OTHER -> "none"

(* The steps of r once the step of pc r.pc is taken. *)
Taken(r) ==
    IF StepOf(r.pc) = "none" \/ (r.steps # <<>> /\ r.steps[Len(r.steps)] = StepOf(r.pc))
    THEN r.steps
    ELSE Append(r.steps, StepOf(r.pc))

(* r goes on with the code after r.pc. *)
Go(r) == [r EXCEPT !.pc = Then(r.op, r.pc), !.steps = Taken(r)]

(* r has an error at r.pc: before withLock it is thrown to the caller; in  *)
(* the try block of a create or of updateFinding the catch unlinks the     *)
(* temporary file first; then the lock is released.                        *)
InTry(r) ==
    /\ r.op # "deleteFinding"
    /\ r.pc \in {"ensureDirectory", "writeFile", "rename", "updateProject_lock",
                 "updateProject_write", "updateProject_release", "invalidateCache"}

Throw(r, e) ==
    [r EXCEPT !.err = e, !.steps = Taken(r),
              !.pc = IF InTry(r) THEN "catch"
                     ELSE IF "lock" \in {r.steps[k] : k \in 1..Len(r.steps)} THEN "release"
                     ELSE "idle"]

MutKind(op) == IF op = "createAuditTrail" THEN "audit" ELSE "finding"

MutKey(r) == <<MutKind(r.op)>> \o r.name \o <<r.id>>

MutKeys == {IndexKey} \cup {<<k>> \o n \o <<i>> : k \in {"audit", "finding"}, n \in MutNames,
                                                   i \in MutIds}

(* The listing cache of the kind of op. *)
CacheOf(op) == IF op = "createAuditTrail" THEN "audit-trails" ELSE "findings"

NotBumped(meta, t) == meta

(* `{...metadata, ...updates, updated: new Date()}` *)
Bumped(meta, t) == [meta EXCEPT !.updated = t]

restMut == <<faults, indexTmp, projDir, hist, inst, page, doc, lst>>

(* The call of c has taken the step of its pc and goes on as r: r is in    *)
(* the code again, or it has returned or thrown.                           *)
MutSet(c, r) ==
    IF r.pc = "idle"
    THEN /\ proc' = [proc EXCEPT ![c] = IdleMut]
         /\ last' = [r EXCEPT !.pc = "done"]
    ELSE /\ proc' = [proc EXCEPT ![c] = r]
         /\ last' = last

(* A mutation is called. *)
mut_call(c, o, n, i) ==
    /\ proc[c].pc = "idle"
    /\ calls > 0
    /\ calls' = calls - 1
    /\ (o = "createAuditTrail") = (i \in AuditIds)
    /\ proc' = [proc EXCEPT ![c] = [IdleMut EXCEPT !.op = o, !.pc = Pcs(o)[1], !.name = n,
                                                   !.id = i,
                                                   !.before = indexFile.data[P0].updated]]
    /\ UNCHANGED <<now, indexFile, locks, cache, last, recs, recTmp>>
    /\ UNCHANGED restMut

(* await this.getProject(projectName), of the mutation or of its           *)
(* getFinding.                                                             *)
mut_getProject(c) ==
    /\ proc[c].pc = "getProject"
    /\ MutSet(c, IF indexFile.data[sanitizeProjectName(proc[c].name)].present
                 THEN Go(proc[c]) ELSE Throw(proc[c], "ProjectNotFound"))
    /\ UNCHANGED <<now, calls, indexFile, locks, cache, recs, recTmp>>
    /\ UNCHANGED restMut

(* await this.checkProjectNotCompleted(projectName, ...) *)
mut_checkProjectNotCompleted(c) ==
    /\ proc[c].pc = "check"
    /\ MutSet(c, IF indexFile.data[sanitizeProjectName(proc[c].name)].status = "completed"
                 THEN Throw(proc[c], "ProjectCompleted") ELSE Go(proc[c]))
    /\ UNCHANGED <<now, calls, indexFile, locks, cache, recs, recTmp>>
    /\ UNCHANGED restMut

(* withLock(lockKey): lockfile.lock *)
mut_lock(c) ==
    /\ proc[c].pc = "lock"
    /\ locks[MutKey(proc[c])] = "free"
    /\ locks' = [locks EXCEPT ![MutKey(proc[c])] = c]
    /\ MutSet(c, Go(proc[c]))
    /\ UNCHANGED <<now, calls, indexFile, cache, recs, recTmp>>
    /\ UNCHANGED restMut

(* The lock of the record, or 'project-index', stays held through the      *)
(* retries: 'Operation timed out waiting for lock'.                        *)
mut_lockTimeout(c) ==
    /\ proc[c].pc \in {"lock", "updateProject_lock"}
    /\ locks[IF proc[c].pc = "lock" THEN MutKey(proc[c]) ELSE IndexKey] # "free"
    /\ MutSet(c, IF proc[c].pc = "lock"
                 THEN [proc[c] EXCEPT !.err = "LockTimeout", !.pc = "idle"]
                 ELSE Throw(proc[c], "LockTimeout"))
    /\ UNCHANGED <<now, calls, indexFile, locks, cache, recs, recTmp>>
    /\ UNCHANGED restMut

(* a create: fs.access(path) *)
mut_access(c) ==
    /\ proc[c].pc = "access"
    /\ MutSet(c, IF recs[proc[c].id] THEN Throw(proc[c], "AlreadyExists") ELSE Go(proc[c]))
    /\ UNCHANGED <<now, calls, indexFile, locks, cache, recs, recTmp>>
    /\ UNCHANGED restMut

(* createAuditTrail: ensureDirectoryExists(<project>/audit-trails) *)
mut_ensureDirectory(c) ==
    /\ proc[c].pc = "ensureDirectory"
    /\ MutSet(c, Go(proc[c]))
    /\ UNCHANGED <<now, calls, indexFile, locks, cache, recs, recTmp>>
    /\ UNCHANGED restMut

(* getFinding: fs.readFile(findingPath) *)
mut_readFile(c) ==
    /\ proc[c].pc = "readFile"
    /\ MutSet(c, IF recs[proc[c].id] THEN Go(proc[c]) ELSE Throw(proc[c], "FindingNotFound"))
    /\ UNCHANGED <<now, calls, indexFile, locks, cache, recs, recTmp>>
    /\ UNCHANGED restMut

(* fs.writeFile(tempPath, content) *)
mut_writeFile(c) ==
    /\ proc[c].pc = "writeFile"
    /\ recTmp' = [recTmp EXCEPT ![proc[c].id] = TRUE]
    /\ MutSet(c, Go(proc[c]))
    /\ UNCHANGED <<now, calls, indexFile, locks, cache, recs>>
    /\ UNCHANGED restMut

(* fs.rename(tempPath, path) *)
mut_rename(c) ==
    /\ proc[c].pc = "rename"
    /\ recs' = [recs EXCEPT ![proc[c].id] = TRUE]
    /\ recTmp' = [recTmp EXCEPT ![proc[c].id] = FALSE]
    /\ MutSet(c, Go(proc[c]))
    /\ UNCHANGED <<now, calls, indexFile, locks, cache>>
    /\ UNCHANGED restMut

(* deleteFinding: fs.unlink(findingPath) *)
mut_unlink(c) ==
    /\ proc[c].pc = "unlink"
    /\ recs' = [recs EXCEPT ![proc[c].id] = FALSE]
    /\ MutSet(c, Go(proc[c]))
    /\ UNCHANGED <<now, calls, indexFile, locks, cache, recTmp>>
    /\ UNCHANGED restMut

(* updateProject: withLock('project-index') *)
mut_updateProject_lock(c) ==
    /\ proc[c].pc = "updateProject_lock"
    /\ locks[IndexKey] = "free"
    /\ locks' = [locks EXCEPT ![IndexKey] = c]
    /\ MutSet(c, Go(proc[c]))
    /\ UNCHANGED <<now, calls, indexFile, cache, recs, recTmp>>
    /\ UNCHANGED restMut

(* updateProject: getProject, new Date(), project.json and the index are   *)
(* written.                                                                *)
mut_updateProject_write(c) ==
    /\ proc[c].pc = "updateProject_write"
    /\ \E t \in Dates :
           /\ now' = t
           /\ indexFile' = [indexFile EXCEPT
                               !.data[sanitizeProjectName(proc[c].name)] = Bumped(@, t)]
           /\ MutSet(c, Go([proc[c] EXCEPT !.t = t]))
    /\ UNCHANGED <<calls, locks, cache, recs, recTmp>>
    /\ UNCHANGED restMut

(* updateProject: the finally block of withLock('project-index') *)
mut_updateProject_release(c) ==
    /\ proc[c].pc = "updateProject_release"
    /\ locks' = [locks EXCEPT ![IndexKey] = "free"]
    /\ MutSet(c, Go(proc[c]))
    /\ UNCHANGED <<now, calls, indexFile, cache, recs, recTmp>>
    /\ UNCHANGED restMut

(* await this.invalidateCache(projectName, type): the entry of the listing *)
(* cache is deleted.                                                       *)
mut_invalidateCache(c) ==
    /\ proc[c].pc = "invalidateCache"
    /\ cache' = [cache EXCEPT ![CacheOf(proc[c].op)] = FALSE]
    /\ MutSet(c, Go(proc[c]))
    /\ UNCHANGED <<now, calls, indexFile, locks, recs, recTmp>>
    /\ UNCHANGED restMut

(* The catch block of a create or of updateFinding: fs.unlink(tempPath),   *)
(* then 'Failed to ...' is thrown.                                         *)
mut_catch(c) ==
    /\ proc[c].pc = "catch"
    /\ recTmp' = [recTmp EXCEPT ![proc[c].id] = FALSE]
    /\ MutSet(c, [proc[c] EXCEPT !.pc = "release"])
    /\ UNCHANGED <<now, calls, indexFile, locks, cache, recs>>
    /\ UNCHANGED restMut

(* The finally block of withLock(lockKey): release(); the mutation returns *)
(* or throws.                                                              *)
mut_release(c) ==
    /\ proc[c].pc = "release"
    /\ locks' = [locks EXCEPT ![MutKey(proc[c])] = "free"]
    /\ MutSet(c, [proc[c] EXCEPT !.pc = "idle", !.steps = Taken(proc[c])])
    /\ UNCHANGED <<now, calls, indexFile, cache, recs, recTmp>>
    /\ UNCHANGED restMut

(* The project p, in progress or completed; the finding f1 may exist; the  *)
(* listings may be cached.                                                 *)
InitMutate ==
    /\ now = 0
    /\ faults = 0
    /\ calls = MaxMutateCalls
    /\ \E st \in {"in-progress", "completed"} :
           indexFile = FullFile([EmptyIndex EXCEPT ![P0] = NewMeta(st, 0)])
    /\ indexTmp = NoFile
    /\ projDir = [n \in Projects |-> IF n = P0 THEN FullDir(Meta0) ELSE NoDir]
    /\ locks = [k \in MutKeys |-> "free"]
    /\ cache \in [{"findings", "audit-trails"} -> BOOLEAN]
    /\ proc = [c \in MutClients |-> IdleMut]
    /\ last = IdleMut
    /\ recs \in {[i \in MutIds |-> FALSE], [i \in MutIds |-> i = "f1"]}
    /\ recTmp = [i \in MutIds |-> FALSE]
    /\ hist = NoHist
    /\ inst = NoInst
    /\ page = NoPage
    /\ doc = NoDoc
    /\ lst = NoLst

NextMutate ==
    \/ \E c \in MutClients, o \in MutOps, n \in MutNames, i \in MutIds : mut_call(c, o, n, i)
    \/ \E c \in MutClients : mut_getProject(c)
    \/ \E c \in MutClients : mut_checkProjectNotCompleted(c)
    \/ \E c \in MutClients : mut_lock(c)
    \/ \E c \in MutClients : mut_lockTimeout(c)
    \/ \E c \in MutClients : mut_access(c)
    \/ \E c \in MutClients : mut_ensureDirectory(c)
    \/ \E c \in MutClients : mut_readFile(c)
    \/ \E c \in MutClients : mut_writeFile(c)
    \/ \E c \in MutClients : mut_rename(c)
    \/ \E c \in MutClients : mut_unlink(c)
    \/ \E c \in MutClients : mut_updateProject_lock(c)
    \/ \E c \in MutClients : mut_updateProject_write(c)
    \/ \E c \in MutClients : mut_updateProject_release(c)
    \/ \E c \in MutClients : mut_invalidateCache(c)
    \/ \E c \in MutClients : mut_catch(c)
    \/ \E c \in MutClients : mut_release(c)

SpecMutate == InitMutate /\ [][NextMutate]_vars

(* The call of c returns with this step, without an error. *)
Succeeds(c) ==
    /\ proc[c].pc = "release"
    /\ proc[c].err = "none"
    /\ proc'[c].pc = "idle"

(* `updated` of the project p in the index *)
UpdatedOf(file) == file.data[P0].updated

(* C22 as stated: when a mutation of p returns, the `updated` of p in the  *)
(* index is later than it was when the mutation was called.                *)
C22_UpdatedIsLater ==
    [][\A c \in MutClients : Succeeds(c) => UpdatedOf(indexFile') > proc[c].before]_vars

(* C22, amended: the updateProject of a mutation of p sets the `updated`   *)
(* of p to the clock it reads; when the mutation returns, `updated` is     *)
(* that reading or a later one, which is not earlier than the value at the *)
(* call, and is later unless the clock still showed the millisecond of     *)
(* that value.                                                             *)
C22_UpdatedIsBumped ==
    [][\A c \in MutClients :
          /\ (proc[c].pc = "updateProject_write" /\ proc'[c] # proc[c])
                 => /\ UpdatedOf(indexFile') = now'
                    /\ proc'[c].t = now'
                    /\ now' >= now
          /\ Succeeds(c)
                 => /\ UpdatedOf(indexFile') >= proc[c].t
                    /\ proc[c].t >= proc[c].before
                    /\ UpdatedOf(indexFile') = proc[c].before => now = proc[c].before]_vars

(* A deleteFinding has returned and `updated` is later than at its call. *)
C22_Witness ==
    /\ last.pc = "done"
    /\ last.op = "deleteFinding"
    /\ last.err = "none"
    /\ last.t > last.before
    /\ UpdatedOf(indexFile) = last.t

(* The order of the steps as the claim has it. *)
ClaimedSteps == <<"exists", "guard", "lock", "write", "bump", "invalidate", "release">>

(* The order of updateFinding and deleteFinding: the lock comes first. *)
LockedSteps == <<"lock", "exists", "guard", "write", "bump", "invalidate", "release">>

(* C26 as stated: every mutation that returns has taken its steps in the   *)
(* order project-existence check, completed guard, record lock, write or   *)
(* unlink, bump of `updated`, cache invalidation, release of the lock.     *)
C26_StepsInOrder ==
    [][\A c \in MutClients : Succeeds(c) => last'.steps = ClaimedSteps]_vars

(* C26, amended: createFinding and createAuditTrail take their steps in    *)
(* that order; updateFinding and deleteFinding acquire the record lock     *)
(* first and make the existence check and the completed guard under it;    *)
(* in all four the cache is invalidated while the record lock is held.     *)
C26_StepsInCodeOrder ==
    [][\A c \in MutClients :
          /\ Succeeds(c) =>
                 last'.steps = IF proc[c].op \in {"createFinding", "createAuditTrail"}
                               THEN ClaimedSteps ELSE LockedSteps
          /\ (proc[c].pc = "invalidateCache" /\ proc'[c] # proc[c])
                 => locks[MutKey(proc[c])] = c /\ locks'[MutKey(proc[c])] = c]_vars

(* A createAuditTrail has returned after its steps in the claimed order,   *)
(* and another mutation has bumped `updated` since its own bump.           *)
C26_Witness ==
    /\ last.pc = "done"
    /\ last.err = "none"
    /\ last.op = "createAuditTrail"
    /\ last.steps = ClaimedSteps
    /\ recs["a1"]
    /\ UpdatedOf(indexFile) > last.t

(***************************************************************************)
(* The index snapshot of one StorageManager (projectIndexCache) under      *)
(* concurrent calls of readProjectIndex and writeProjectIndex.  The calls  *)
(* are those of the tool handlers of one server process: they interleave   *)
(* at every await.  writeProjectIndex is only called inside                *)
(* withLock('project-index') (createProject, updateProject,                *)
(* deleteProject), so one write is in progress at a time; readProjectIndex *)
(* is also called under no lock (getProject, listProjects).  cache is the  *)
(* snapshot, last the readProjectIndex call that returned last.            *)
(***************************************************************************)
MaxSnapCalls == 4

SnapClients == {"s1", "s2", "s3"}

IdleSnap == [op |-> "none", pc |-> "idle", content |-> EmptyIndex, index |-> EmptyIndex]

(* No readProjectIndex has returned. *)
NoSnapRead == [op |-> "none", hit |-> FALSE, writing |-> FALSE,
           res |-> EmptyIndex, file |-> EmptyIndex]

(* A writeProjectIndex call is in progress. *)
Writing == \E c \in SnapClients : proc[c].op = "writeProjectIndex"

(* readProjectIndex returned res; hit: from the snapshot. *)
ReadReturned(res, isHit) ==
    [op |-> "readProjectIndex", hit |-> isHit, writing |-> Writing,
     res |-> res, file |-> indexFile.data]

restSnap == <<now, projDir, recs, recTmp, hist, inst, page, doc, lst>>

(* readProjectIndex with the snapshot loaded: it is returned as it is. *)
snap_readProjectIndex_cached(c) ==
    /\ proc[c].pc = "idle"
    /\ calls > 0
    /\ cache.loaded
    /\ calls' = calls - 1
    /\ last' = ReadReturned(cache.idx, TRUE)
    /\ UNCHANGED <<faults, indexFile, indexTmp, locks, cache, proc>>
    /\ UNCHANGED restSnap

(* readProjectIndex with no snapshot: fs.readFile is started. *)
snap_readProjectIndex(c) ==
    /\ proc[c].pc = "idle"
    /\ calls > 0
    /\ ~cache.loaded
    /\ calls' = calls - 1
    /\ proc' = [proc EXCEPT ![c] = [IdleSnap EXCEPT !.op = "readProjectIndex", !.pc = "r_file"]]
    /\ UNCHANGED <<faults, indexFile, indexTmp, locks, cache, last>>
    /\ UNCHANGED restSnap

(* fs.readFile reads the file as it is now. *)
snap_readFile(c) ==
    /\ proc[c].pc = "r_file"
    /\ proc' = [proc EXCEPT ![c].pc = "r_store", ![c].content = indexFile.data]
    /\ UNCHANGED <<faults, calls, indexFile, indexTmp, locks, cache, last>>
    /\ UNCHANGED restSnap

(* The continuation: what was read is parsed, stored as the snapshot and   *)
(* returned.                                                               *)
StoreSnapshot(c) == Loaded(proc[c].content)

snap_store(c) ==
    /\ proc[c].pc = "r_store"
    /\ cache' = StoreSnapshot(c)
    /\ last' = ReadReturned(proc[c].content, FALSE)
    /\ proc' = [proc EXCEPT ![c] = IdleSnap]
    /\ UNCHANGED <<faults, calls, indexFile, indexTmp, locks>>
    /\ UNCHANGED restSnap

(* writeProjectIndex(index), called by the holder of the 'project-index'   *)
(* lock.                                                                   *)
snap_writeProjectIndex(c, index) ==
    /\ proc[c].pc = "idle"
    /\ calls > 0
    /\ locks[IndexKey] = "free"
    /\ calls' = calls - 1
    /\ locks' = [locks EXCEPT ![IndexKey] = c]
    /\ proc' = [proc EXCEPT ![c] = [IdleSnap EXCEPT !.op = "writeProjectIndex",
                                                    !.pc = "w_write", !.index = index]]
    /\ UNCHANGED <<faults, indexFile, indexTmp, cache, last>>
    /\ UNCHANGED restSnap

snap_writeFile(c) ==
    /\ proc[c].pc = "w_write"
    /\ indexTmp' = FullFile(proc[c].index)
    /\ proc' = [proc EXCEPT ![c].pc = "w_ren"]
    /\ UNCHANGED <<faults, calls, indexFile, locks, cache, last>>
    /\ UNCHANGED restSnap

(* fs.writeFile throws: the temporary file is unlinked and 'Failed to     *)
(* write project index' is thrown; the snapshot is left as it is.         *)
snap_writeFile_fail(c) ==
    /\ proc[c].pc = "w_write"
    /\ faults > 0
    /\ faults' = faults - 1
    /\ indexTmp' = NoFile
    /\ locks' = [locks EXCEPT ![IndexKey] = "free"]
    /\ proc' = [proc EXCEPT ![c] = IdleSnap]
    /\ UNCHANGED <<calls, indexFile, cache, last>>
    /\ UNCHANGED restSnap

snap_rename(c) ==
    /\ proc[c].pc = "w_ren"
    /\ indexFile' = indexTmp
    /\ indexTmp' = NoFile
    /\ proc' = [proc EXCEPT ![c].pc = "w_null"]
    /\ UNCHANGED <<faults, calls, locks, cache, last>>
    /\ UNCHANGED restSnap

(* this.projectIndexCache = null, and the call returns. *)
snap_invalidate(c) ==
    /\ proc[c].pc = "w_null"
    /\ cache' = Unloaded
    /\ locks' = [locks EXCEPT ![IndexKey] = "free"]
    /\ proc' = [proc EXCEPT ![c] = IdleSnap]
    /\ UNCHANGED <<faults, calls, indexFile, indexTmp, last>>
    /\ UNCHANGED restSnap

InitSnapshot ==
    /\ now = 0
    /\ faults = 1
    /\ calls = MaxSnapCalls
    /\ indexFile \in {FullFile(idx) : idx \in IndexChoices}
    /\ indexTmp = NoFile
    /\ projDir = [n \in Projects |-> NoDir]
    /\ locks = [k \in {IndexKey} |-> "free"]
    /\ cache = Unloaded
    /\ proc = [c \in SnapClients |-> IdleSnap]
    /\ last = NoSnapRead
    /\ recs = NoRecs
    /\ recTmp = NoRecs
    /\ hist = NoHist
    /\ inst = NoInst
    /\ page = NoPage
    /\ doc = NoDoc
    /\ lst = NoLst

NextSnapshot ==
    \E c \in SnapClients :
        \/ snap_readProjectIndex_cached(c)
        \/ snap_readProjectIndex(c)
        \/ snap_readFile(c)
        \/ snap_store(c)
        \/ \E index \in IndexChoices : snap_writeProjectIndex(c, index)
        \/ snap_writeFile(c)
        \/ snap_writeFile_fail(c)
        \/ snap_rename(c)
        \/ snap_invalidate(c)

SpecSnapshot == InitSnapshot /\ [][NextSnapshot]_vars

(* C23: immediately after each successful writeProjectIndex the snapshot   *)
(* is unloaded, and the next readProjectIndex returns exactly the index    *)
(* the last successful write persisted, whatever reads were in flight when *)
(* the write happened: a readProjectIndex that is called while no write is *)
(* in progress and answers from the snapshot returns the content of the    *)
(* index file.                                                             *)
C23_ReadReturnsLastWrite ==
    (last.op = "readProjectIndex" /\ last.hit /\ ~last.writing) => last.res = last.file

(* The first half alone: the step that ends a successful writeProjectIndex *)
(* leaves the snapshot unloaded.                                           *)
UnloadedAfterWrite ==
    [][\A c \in SnapClients :
           (proc[c].pc = "w_null" /\ proc'[c].pc = "idle") => ~cache'.loaded]_vars

(***************************************************************************)
(* executeProjectCreationTransaction: the steps of createProject after its *)
(* checks, the undo actions they push, and the rollback loop of the catch  *)
(* block.  An error message is the sequence of its parts.  proc is the one *)
(* call (createProject holds 'project-index'), last what it threw or       *)
(* returned, hist the history of the call: the message of the failure that *)
(* started the rollback, the undo actions in the order they ran and the    *)
(* undo failures in the order they happened.                               *)
(***************************************************************************)
MaxTxCalls == 2

FsErrors == {"EACCES", "ENOSPC"}

Outcomes == FsErrors \cup {"ok"}

RemoveDirectory == "Remove project directory"

RestoreIndex == "Restore project index"

TxSteps == <<"mkdir", "mkdirFindings", "mkdirAudits", "writeFile", "rename",
             "readProjectIndex", "writeProjectIndex">>

IdleTx == [pc |-> "idle", step |-> 0, metadata |-> NoMeta, operations |-> <<>>,
           originalIndexState |-> EmptyIndex, error |-> <<>>, i |-> 0,
           rollbackErrors |-> <<>>]

NoTxHist == [error |-> <<>>, ran |-> <<>>, failed |-> <<>>]

NoTxResult == [thrown |-> FALSE, message |-> <<>>, operations |-> <<>>]

(* What writeProjectIndex and readProjectIndex throw on an fs error e. *)
WriteIndexError(e) == <<"Failed to write project index: ", e>>

ReadIndexError(e) == <<"Failed to read project index: ", e>>

(* error.message of what step s throws on the fs error e. *)
StepError(s, e) ==
    CASE TxSteps[s] = "readProjectIndex" -> ReadIndexError(e)
      [] TxSteps[s] = "writeProjectIndex" -> WriteIndexError(e)
      [] OTHER -> <<e>>

(* rollbackErrors.join('; ') *)
RECURSIVE JoinErrors(_)
JoinErrors(errs) ==
    IF errs = <<>> THEN <<>>
    ELSE IF Len(errs) = 1 THEN Head(errs)
    ELSE Head(errs) \o <<"; ">> \o JoinErrors(Tail(errs))

(* `${rollbackItem.description}: ${rollbackMsg}` *)
RollbackError(description, msg) == <<description, ": ">> \o msg

OriginalOnly(errorMsg, rollbackErrors) == <<"Failed to create project: ">> \o errorMsg

(* The message of the error the catch block throws. *)
FinalMessage(errorMsg, rollbackErrors) ==
    IF Len(rollbackErrors) > 0
    THEN <<"Failed to create project: ">> \o errorMsg \o <<". Rollback errors: ">>
             \o JoinErrors(rollbackErrors)
    ELSE <<"Failed to create project: ">> \o errorMsg

restTx == <<now, locks, recs, recTmp, inst, page, doc, lst, indexTmp, faults>>

(* createProject has found no directory of the project and built its       *)
(* metadata.                                                               *)
tx_call ==
    /\ proc.pc = "idle"
    /\ calls > 0
    /\ ~projDir[P0].exists
    /\ calls' = calls - 1
    /\ proc' = [IdleTx EXCEPT !.pc = "try", !.step = 1, !.metadata = Meta0]
    /\ hist' = NoTxHist
    /\ last' = NoTxResult
    /\ UNCHANGED <<indexFile, projDir, cache>>
    /\ UNCHANGED restTx

(* The operations array after step s has returned: step 1 pushes the       *)
(* removal of the directory as completed, step 6 (the backup of the index) *)
(* is followed by the push of the restore as not completed, step 7 marks   *)
(* the last operation completed.                                           *)
Pushed(operations, s) ==
    CASE TxSteps[s] = "mkdir" ->
           Append(operations, [description |-> RemoveDirectory, completed |-> TRUE])
      [] TxSteps[s] = "readProjectIndex" ->
           Append(operations, [description |-> RestoreIndex, completed |-> FALSE])
      [] TxSteps[s] = "writeProjectIndex" ->
           [operations EXCEPT ![Len(operations)].completed = TRUE]
      [] OTHER -> operations

(* The directory of the project after step s. *)
DirAfter(dir, s, metadata) ==
    CASE TxSteps[s] = "mkdir" -> [dir EXCEPT !.exists = TRUE]
      [] TxSteps[s] = "mkdirFindings" -> [dir EXCEPT !.findings = TRUE]
      [] TxSteps[s] = "mkdirAudits" -> [dir EXCEPT !.audits = TRUE]
      [] TxSteps[s] = "writeFile" -> [dir EXCEPT !.jsonTmp = metadata]
      [] TxSteps[s] = "rename" -> [dir EXCEPT !.json = dir.jsonTmp, !.jsonTmp = NoMeta]
      [] OTHER -> dir

(* What readProjectIndex returns. *)
TxIndex == IF cache.loaded THEN cache.idx ELSE indexFile.data

(* One step of the try block returns. *)
tx_step ==
    /\ proc.pc = "try"
    /\ LET s == proc.step
           original == IF TxSteps[s] = "readProjectIndex" THEN TxIndex
                       ELSE proc.originalIndexState
       IN /\ projDir' = [projDir EXCEPT ![P0] = DirAfter(projDir[P0], s, proc.metadata)]
          /\ cache' = CASE TxSteps[s] = "readProjectIndex" -> Loaded(TxIndex)
                        [] TxSteps[s] = "writeProjectIndex" -> Unloaded
                        [] OTHER -> cache
          /\ indexFile' = IF TxSteps[s] = "writeProjectIndex"
                          THEN FullFile([original EXCEPT ![P0] = proc.metadata])
                          ELSE indexFile
          /\ IF s = Len(TxSteps)
             THEN /\ proc' = IdleTx
                  /\ last' = [NoTxResult EXCEPT !.operations = Pushed(proc.operations, s)]
             ELSE /\ proc' = [proc EXCEPT !.step = s + 1, !.originalIndexState = original,
                                          !.operations = Pushed(proc.operations, s)]
                  /\ last' = last
    /\ UNCHANGED <<calls, hist>>
    /\ UNCHANGED restTx

(* One step of the try block throws: the catch block starts its loop at    *)
(* the last operation.                                                     *)
tx_catch(e) ==
    /\ proc.pc = "try"
    /\ proc' = [proc EXCEPT !.pc = "rollback", !.error = StepError(proc.step, e),
                            !.i = Len(proc.operations) - 1]
    /\ hist' = [hist EXCEPT !.error = StepError(proc.step, e)]
    /\ UNCHANGED <<calls, indexFile, projDir, cache, last>>
    /\ UNCHANGED restTx

(* One turn of the rollback loop: operations.at(i) runs if it is           *)
(* completed; what it throws is pushed to rollbackErrors.                  *)
tx_undo(o) ==
    /\ proc.pc = "rollback"
    /\ proc.i >= 0
    /\ LET item == proc.operations[proc.i + 1]
           msg == IF item.description = RestoreIndex THEN WriteIndexError(o) ELSE <<o>>
       IN IF item.completed
          THEN /\ IF o = "ok"
                  THEN /\ projDir' = IF item.description = RemoveDirectory
                                     THEN [projDir EXCEPT ![P0] = NoDir] ELSE projDir
                       /\ indexFile' = IF item.description = RestoreIndex
                                       THEN FullFile(proc.originalIndexState) ELSE indexFile
                       /\ cache' = IF item.description = RestoreIndex THEN Unloaded ELSE cache
                       /\ proc' = [proc EXCEPT !.i = proc.i - 1]
                       /\ hist' = [hist EXCEPT !.ran = Append(hist.ran, item.description)]
                  ELSE /\ UNCHANGED <<projDir, indexFile, cache>>
                       /\ proc' = [proc EXCEPT
                              !.i = proc.i - 1,
                              !.rollbackErrors =
                                  Append(proc.rollbackErrors,
                                         RollbackError(item.description, msg))]
                       /\ hist' = [hist EXCEPT
                              !.ran = Append(hist.ran, item.description),
                              !.failed = Append(hist.failed,
                                                [description |-> item.description,
                                                 msg |-> msg])]
          ELSE /\ o = "ok"
               /\ proc' = [proc EXCEPT !.i = proc.i - 1]
               /\ UNCHANGED <<projDir, indexFile, cache, hist>>
    /\ UNCHANGED <<calls, last>>
    /\ UNCHANGED restTx

(* After the loop: the snapshot is unloaded and the error is thrown. *)
tx_throw ==
    /\ proc.pc = "rollback"
    /\ proc.i < 0
    /\ cache' = Unloaded
    /\ last' = [thrown |-> TRUE,
                message |-> FinalMessage(proc.error, proc.rollbackErrors),
                operations |-> proc.operations]
    /\ proc' = IdleTx
    /\ UNCHANGED <<calls, indexFile, projDir, hist>>
    /\ UNCHANGED restTx

InitTransaction ==
    /\ now = 0
    /\ faults = 0
    /\ calls = MaxTxCalls
    /\ indexFile \in {FullFile(EmptyIndex)}
                      \cup {FullFile([EmptyIndex EXCEPT ![n] = Meta0]) : n \in Projects \ {P0}}
    /\ indexTmp = NoFile
    /\ projDir = [n \in Projects |-> NoDir]
    /\ locks = [k \in {IndexKey} |-> "free"]
    /\ cache \in {Unloaded, Loaded(indexFile.data)}
    /\ proc = IdleTx
    /\ last = NoTxResult
    /\ recs = NoRecs
    /\ recTmp = NoRecs
    /\ hist = NoTxHist
    /\ inst = NoInst
    /\ page = NoPage
    /\ doc = NoDoc
    /\ lst = NoLst

NextTransaction ==
    \/ tx_call
    \/ tx_step
    \/ \E e \in FsErrors : tx_catch(e)
    \/ \E o \in Outcomes : tx_undo(o)
    \/ tx_throw

SpecTransaction == InitTransaction /\ [][NextTransaction]_vars

(* The descriptions of the completed operations, last pushed first. *)
RECURSIVE CompletedReversed(_)
CompletedReversed(operations) ==
    IF operations = <<>> THEN <<>>
    ELSE LET n == Len(operations)
             rest == CompletedReversed(SubSeq(operations, 1, n - 1))
         IN IF operations[n].completed THEN <<operations[n].description>> \o rest ELSE rest

(* The undo failures as the message lists them. *)
Listed(failed) == JoinErrors([k \in 1..Len(failed) |->
                                 RollbackError(failed[k].description, failed[k].msg)])

(* C24: the error createProject throws after a failure carries the message *)
(* of the original failure and, appended to it, every undo failure; every  *)
(* completed undo action has run, a failed one included, in reverse order  *)
(* of the steps they undo.                                                 *)
C24_UndoFailuresAppended ==
    last.thrown =>
        /\ hist.ran = CompletedReversed(last.operations)
        /\ SubSeq(last.message, 1, 1 + Len(hist.error))
               = <<"Failed to create project: ">> \o hist.error
        /\ SubSeq(last.message, 2 + Len(hist.error), Len(last.message))
               = IF hist.failed = <<>> THEN <<>>
                 ELSE <<". Rollback errors: ">> \o Listed(hist.failed)

(* A createProject whose step failed and whose undo action failed too has  *)
(* thrown.                                                                 *)
C24_Witness ==
    /\ last.thrown
    /\ hist.error # <<>>
    /\ hist.failed # <<>>
    /\ hist.ran = <<RemoveDirectory>>
    /\ projDir[P0].exists

(* The artifact was left behind by a holder that stopped without releasing *)
(* it, and it is older than the staleness threshold.                       *)
Abandoned == Artifact.st = "left" /\ Artifact.stale

(* C25: when a holder stopped without releasing its lock, an attempt of a  *)
(* later withLock on the key that finds the artifact older than the        *)
(* staleness threshold takes the lock over, and a call that waits for the  *)
(* lock does not leave such an artifact in place: the key does not stay    *)
(* blocked by it.                                                          *)
C25_StaleLockAcquired ==
    /\ [][\A w \in Callers :
            (Abandoned /\ proc[w].pc = "lock" /\ proc'[w] # proc[w] /\ faults' = faults)
                => /\ locks'[IndexKey] = HeldBy(w)
                   /\ proc'[w].pc = "operation"]_vars
    /\ \A w \in Callers :
           (Abandoned /\ Waiting(w)) ~> (~Abandoned \/ proc[w].err = "LockError")

(* A call whose release() failed has returned and left its artifact, and a *)
(* later call holds the lock.                                              *)
C25_Witness ==
    \E w \in Callers, v \in Callers :
        /\ v # w
        /\ proc[w].pc = "done"
        /\ proc[w].acquired
        /\ ~proc[w].released
        /\ proc[v].pc = "operation"
        /\ Artifact = HeldBy(v)

(***************************************************************************)
(* The listing cache: LRUCache.  The entries are the Map in its insertion  *)
(* order, first inserted first.  get, set and delete run their operation   *)
(* synchronously inside withMutex (nothing is awaited before it when no    *)
(* operation on the key is pending, and none ever is when one starts), so  *)
(* each call is one step.  cache is the LRUCache with the configured size  *)
(* it was built from, last the call that returned last, hist the history   *)
(* of the uses: a count of the calls and, for each key, the number of the  *)
(* last get or set that used its entry.                                    *)
(***************************************************************************)
MaxLruCalls == 5

LruKeys == {"p-findings", "q-findings", "r-findings"}

LruData == {"d1", "d2"}

(* MCP_SECURITY_REPORT_CACHE_SIZE: not set, or a string of digits. *)
NotSet == [set |-> FALSE, n |-> 0]

CacheSizes == {NotSet} \cup {[set |-> TRUE, n |-> v] : v \in {0, 1, 2, 10001}}

(* EnvSchema and getServerConfig: a value outside 1..10000 fails the       *)
(* validation and the default is used.                                     *)
cacheSize(env) == IF env.set /\ env.n >= 1 /\ env.n <= 10000 THEN env.n ELSE 50

(* LRUCache.constructor *)
MaxSizeOf(maxSize) ==
    IF maxSize < 1 THEN 50
    ELSE IF maxSize > 10000 THEN 10000
    ELSE maxSize

Keys(entries) == {entries[j].key : j \in 1..Len(entries)}

(* this.cache.delete(key) *)
Without(entries, key) == SelectSeq(entries, LAMBDA e : e.key # key)

(* this.cache.get(key) *)
EntryOf(entries, key) == CHOOSE e \in {entries[j] : j \in 1..Len(entries)} : e.key = key

KeepAll(entries, maxSize) == entries

(* evictIfNeeded: over the limit, the first key of the Map is deleted. *)
evictIfNeeded(entries, maxSize) ==
    IF Len(entries) <= maxSize THEN entries ELSE Tail(entries)

InPlace(entries, key, t) ==
    [j \in 1..Len(entries) |->
        IF entries[j].key = key THEN [entries[j] EXCEPT !.lastAccessed = t] ELSE entries[j]]

(* get of a cached key: lastAccessed is set, the entry moves to the end. *)
MoveToEnd(entries, key, t) ==
    Append(Without(entries, key), [EntryOf(entries, key) EXCEPT !.lastAccessed = t])

NoLruCall == [op |-> "none", key |-> "none", hit |-> FALSE, evicted |-> {}]

NoUses == [n |-> 0, used |-> [k \in LruKeys |-> 0]]

(* The call is one more use of the entry of key. *)
Used(key) == [n |-> hist.n + 1, used |-> [hist.used EXCEPT ![key] = hist.n + 1]]

restLru == <<faults, indexFile, indexTmp, projDir, locks, proc, recs, recTmp, inst, page,
             doc, lst>>

lru_get(key) ==
    /\ calls > 0
    /\ calls' = calls - 1
    /\ \E t \in Dates :
         /\ now' = t
         /\ IF key \in Keys(cache.entries)
            THEN /\ cache' = [cache EXCEPT !.entries = MoveToEnd(cache.entries, key, t)]
                 /\ hist' = Used(key)
                 /\ last' = [NoLruCall EXCEPT !.op = "get", !.key = key, !.hit = TRUE]
            ELSE /\ cache' = cache
                 /\ hist' = hist
                 /\ last' = [NoLruCall EXCEPT !.op = "get", !.key = key]
    /\ UNCHANGED restLru

lru_set(key, data) ==
    /\ calls > 0
    /\ calls' = calls - 1
    /\ \E t \in Dates :
         /\ now' = t
         /\ LET entry == [key |-> key, data |-> data, lastModified |-> now,
                          lastAccessed |-> t]
                added == Append(Without(cache.entries, key), entry)
                kept == evictIfNeeded(added, cache.maxSize)
            IN /\ cache' = [cache EXCEPT !.entries = kept]
               /\ last' = [NoLruCall EXCEPT !.op = "set", !.key = key,
                                            !.hit = key \in Keys(cache.entries),
                                            !.evicted = Keys(added) \ Keys(kept)]
    /\ hist' = Used(key)
    /\ UNCHANGED restLru

lru_delete(key) ==
    /\ calls > 0
    /\ calls' = calls - 1
    /\ cache' = [cache EXCEPT !.entries = Without(cache.entries, key)]
    /\ last' = [NoLruCall EXCEPT !.op = "delete", !.key = key,
                                 !.hit = key \in Keys(cache.entries)]
    /\ UNCHANGED <<now, hist>>
    /\ UNCHANGED restLru

lru_clear ==
    /\ calls > 0
    /\ calls' = calls - 1
    /\ cache' = [cache EXCEPT !.entries = <<>>]
    /\ last' = [NoLruCall EXCEPT !.op = "clear"]
    /\ UNCHANGED <<now, hist>>
    /\ UNCHANGED restLru

(* new LRUCache(serverConfig.cacheSize) *)
InitLru ==
    /\ now = 0
    /\ faults = 0
    /\ calls = MaxLruCalls
    /\ indexFile = FullFile(EmptyIndex)
    /\ indexTmp = NoFile
    /\ projDir = [n \in Projects |-> NoDir]
    /\ locks = [k \in {IndexKey} |-> "free"]
    /\ \E env \in CacheSizes :
           cache = [configured |-> env, maxSize |-> MaxSizeOf(cacheSize(env)),
                    entries |-> <<>>]
    /\ proc = IdleProc
    /\ last = NoLruCall
    /\ recs = NoRecs
    /\ recTmp = NoRecs
    /\ hist = NoUses
    /\ inst = NoInst
    /\ page = NoPage
    /\ doc = NoDoc
    /\ lst = NoLst

NextLru ==
    \/ \E key \in LruKeys : lru_get(key)
    \/ \E key \in LruKeys, data \in LruData : lru_set(key, data)
    \/ \E key \in LruKeys : lru_delete(key)
    \/ lru_clear

SpecLru == InitLru /\ [][NextLru]_vars

(* The configured size clamped to [1, 10000], 50 when none is configured. *)
Clamped(env) ==
    IF ~env.set THEN 50
    ELSE IF env.n < 1 THEN 1
    ELSE IF env.n > 10000 THEN 10000
    ELSE env.n

(* The configured size when it is within [1, 10000], 50 otherwise. *)
InRangeOrDefault(env) == IF env.set /\ env.n \in 1..10000 THEN env.n ELSE 50

C29_EvictsLeastRecentlyUsed ==
    [][/\ last'.evicted # {} =>
            /\ last'.op = "set"
            /\ ~last'.hit
            /\ Len(cache.entries) = cache.maxSize
            /\ \E e \in Keys(cache.entries) :
                   /\ last'.evicted = {e}
                   /\ Keys(cache'.entries) = (Keys(cache.entries) \ {e}) \cup {last'.key}
                   /\ \A k \in Keys(cache.entries) \ {e} : hist.used[e] < hist.used[k]
       /\ (last'.op = "set" /\ ~last'.hit /\ Len(cache.entries) = cache.maxSize)
            => last'.evicted # {}]_vars

(* A set on a full cache of capacity 2 has inserted a new key and evicted  *)
(* an entry; the entry that stayed had been used after the evicted one.    *)
C29_Witness ==
    /\ last.op = "set"
    /\ ~last.hit
    /\ Len(cache.entries) = 2
    /\ cache.entries[2].key = last.key
    /\ \E e \in last.evicted : hist.used[cache.entries[1].key] > hist.used[e]

(***************************************************************************)
(* deleteProject, and a getProject after it.  The call holds               *)
(* 'project-index', so no other call writes the index while it runs; proc  *)
(* is the one call, last the call that returned or threw last.  The        *)
(* snapshot of the manager may be unloaded, current, or the content of the *)
(* index from before an earlier write (a read that was in flight when that *)
(* write happened has stored it).  hist is the history of the last         *)
(* deleteProject: the content of the index file when it was called, the    *)
(* step that failed, and whether the index was written back.               *)
(***************************************************************************)
MaxDeleteCalls == 3

Q0 == sanitizeProjectName(<<"q">>)

DeleteIndexes ==
    {[n \in Projects |-> IF n = P0 THEN a ELSE IF n = Q0 THEN b ELSE NoMeta] :
        a \in {NoMeta, Meta0, NewMeta("completed", 0)}, b \in {NoMeta, Meta0}}

IdleDelete == [op |-> "none", pc |-> "idle", originalIndex |-> EmptyIndex,
               index |-> EmptyIndex, error |-> <<>>]

NoDeleteHist == [before |-> EmptyIndex, current |-> FALSE, at |-> "none",
                 restored |-> FALSE]

NoDeleteResult == [op |-> "none", thrown |-> FALSE, message |-> <<>>, found |-> FALSE]

restDelete == <<now, faults, indexTmp, locks, recs, recTmp, inst, page, doc, lst>>

(* What readProjectIndex returns (the snapshot when it is loaded). *)
DeleteIdx == IF cache.loaded THEN cache.idx ELSE indexFile.data

deleteProject(name) ==
    /\ proc.pc = "idle"
    /\ calls > 0
    /\ calls' = calls - 1
    /\ proc' = [IdleDelete EXCEPT !.op = "deleteProject", !.pc = "get"]
    /\ hist' = [NoDeleteHist EXCEPT !.before = indexFile.data,
                                    !.current = (DeleteIdx = indexFile.data)]
    /\ last' = NoDeleteResult
    /\ UNCHANGED <<indexFile, projDir, cache>>
    /\ UNCHANGED restDelete

(* getProject, checkProjectNotCompleted and originalIndex: three reads of  *)
(* the snapshot the first one loads; then the index without the project.   *)
deleteProject_verify ==
    /\ proc.pc = "get"
    /\ cache' = Loaded(DeleteIdx)
    /\ IF ~DeleteIdx[P0].present
       THEN /\ proc' = IdleDelete
            /\ last' = [NoDeleteResult EXCEPT !.op = "deleteProject", !.thrown = TRUE,
                                              !.message = <<"Project not found: ">>]
       ELSE IF DeleteIdx[P0].status = "completed"
       THEN /\ proc' = IdleDelete
            /\ last' = [NoDeleteResult EXCEPT !.op = "deleteProject", !.thrown = TRUE,
                                              !.message = <<"Cannot delete project">>]
       ELSE /\ proc' = [proc EXCEPT !.pc = "write", !.originalIndex = DeleteIdx,
                                    !.index = [DeleteIdx EXCEPT ![P0] = NoMeta]]
            /\ last' = last
    /\ UNCHANGED <<calls, indexFile, projDir, hist>>
    /\ UNCHANGED restDelete

(* Step 1: writeProjectIndex(index). *)
deleteProject_writeIndex(o) ==
    /\ proc.pc = "write"
    /\ IF o = "ok"
       THEN /\ indexFile' = FullFile(proc.index)
            /\ cache' = Unloaded
            /\ proc' = [proc EXCEPT !.pc = "rm"]
            /\ hist' = hist
       ELSE /\ UNCHANGED <<indexFile, cache>>
            /\ proc' = [proc EXCEPT !.pc = "restore", !.error = WriteIndexError(o)]
            /\ hist' = [hist EXCEPT !.at = "writeProjectIndex"]
    /\ UNCHANGED <<calls, projDir, last>>
    /\ UNCHANGED restDelete

(* Step 2: fs.rm(projectPath, {recursive: true, force: true}).  A removal  *)
(* that fails may have removed a part of the tree.                         *)
deleteProject_removeDirectory(o) ==
    /\ proc.pc = "rm"
    /\ IF o = "ok"
       THEN /\ projDir' = [projDir EXCEPT ![P0] = NoDir]
            /\ proc' = IdleDelete
            /\ last' = [NoDeleteResult EXCEPT !.op = "deleteProject"]
            /\ hist' = hist
       ELSE /\ \E dir \in {projDir[P0], [projDir[P0] EXCEPT !.findings = FALSE]} :
                  projDir' = [projDir EXCEPT ![P0] = dir]
            /\ proc' = [proc EXCEPT !.pc = "restore", !.error = <<o>>]
            /\ last' = last
            /\ hist' = [hist EXCEPT !.at = "rm"]
    /\ UNCHANGED <<calls, indexFile, cache>>
    /\ UNCHANGED restDelete

KeptIndex(originalIndex) == indexFile

(* The index file after writeProjectIndex(originalIndex) of the catch      *)
(* block.                                                                  *)
RestoredIndex(originalIndex) == FullFile(originalIndex)

(* The catch block: the index is written back; a failure of that write is  *)
(* logged.  Then 'Failed to delete project' is thrown.                     *)
deleteProject_restore(o) ==
    /\ proc.pc = "restore"
    /\ indexFile' = IF o = "ok" THEN RestoredIndex(proc.originalIndex) ELSE indexFile
    /\ cache' = Unloaded
    /\ hist' = [hist EXCEPT !.restored = (o = "ok")]
    /\ proc' = IdleDelete
    /\ last' = [NoDeleteResult EXCEPT !.op = "deleteProject", !.thrown = TRUE,
                    !.message = <<"Failed to delete project: ">> \o proc.error]
    /\ UNCHANGED <<calls, projDir>>
    /\ UNCHANGED restDelete

(* getProject(name): the project of the index, or 'Project not found'. *)
getProject(name) ==
    /\ proc.pc = "idle"
    /\ calls > 0
    /\ calls' = calls - 1
    /\ cache' = Loaded(DeleteIdx)
    /\ last' = [NoDeleteResult EXCEPT !.op = "getProject",
                                      !.thrown = ~DeleteIdx[P0].present,
                                      !.found = DeleteIdx[P0].present]
    /\ UNCHANGED <<indexFile, projDir, proc, hist>>
    /\ UNCHANGED restDelete

InitDelete ==
    /\ now = 0
    /\ faults = 0
    /\ calls = MaxDeleteCalls
    /\ indexFile \in {FullFile(idx) : idx \in DeleteIndexes}
    /\ indexTmp = NoFile
    /\ projDir = [n \in Projects |->
                     IF indexFile.data[n].present THEN FullDir(indexFile.data[n]) ELSE NoDir]
    /\ locks = [k \in {IndexKey} |-> "free"]
    /\ cache \in {Unloaded} \cup {Loaded(idx) : idx \in DeleteIndexes}
    /\ proc = IdleDelete
    /\ last = NoDeleteResult
    /\ recs = NoRecs
    /\ recTmp = NoRecs
    /\ hist = NoDeleteHist
    /\ inst = NoInst
    /\ page = NoPage
    /\ doc = NoDoc
    /\ lst = NoLst

NextDelete ==
    \/ deleteProject(P0)
    \/ deleteProject_verify
    \/ \E o \in Outcomes : deleteProject_writeIndex(o)
    \/ \E o \in Outcomes : deleteProject_removeDirectory(o)
    \/ \E o \in Outcomes : deleteProject_restore(o)
    \/ getProject(P0)

SpecDelete == InitDelete /\ [][NextDelete]_vars

(* The last deleteProject has thrown after its removal of the directory    *)
(* failed.                                                                 *)
FailedAtRemoval == proc.pc = "idle" /\ hist.at = "rm"

(* C30, as stated: after a deleteProject that failed at the removal of the *)
(* directory, the index file has the content it had before the call and    *)
(* the project is in it.                                                   *)
C30_IndexRestored ==
    FailedAtRemoval => indexFile.data = hist.before /\ indexFile.data[P0].present

(* C30, amended: after a deleteProject that failed at the removal of the   *)
(* directory and whose restoring write succeeded, the index file is the    *)
(* index the call read at its start, which is the content of the file      *)
(* before the call when the snapshot of the manager was current; the       *)
(* project is in it and a getProject made then returns it.  When the       *)
(* restoring write failed the index stays without the project.             *)
C30_IndexRestoredUnlessRestoreFails ==
    FailedAtRemoval =>
        /\ hist.restored =>
              /\ indexFile.st = "ok"
              /\ indexFile.data[P0].present
              /\ hist.current => indexFile.data = hist.before
              /\ last.op = "getProject" => last.found
        /\ ~hist.restored => ~indexFile.data[P0].present

(* A getProject has returned the project after a deleteProject that failed *)
(* at the removal of the directory and restored the index.                 *)
C30_Witness ==
    /\ FailedAtRemoval
    /\ hist.restored
    /\ hist.current
    /\ indexFile.data = hist.before
    /\ last.op = "getProject"
    /\ last.found

(***************************************************************************)
(* The locks the storage operations take, in the order they take them.     *)
(* createProject, updateProject and deleteProject run inside               *)
(* withLock('project-index'); createFinding, updateFinding, deleteFinding  *)
(* and createAuditTrail run inside withLock of their record key and call   *)
(* updateProject there.  locks is who holds each key, proc the calls in    *)
(* flight with the keys they hold (the last taken first) and their place   *)
(* in the plan of their operation.                                         *)
(***************************************************************************)
MaxLockCalls == 4

OrdClients == {"c1", "c2", "c3"}

OrdRecordKeys == {<<"finding", "p", "f1">>, <<"audit", "p", "a1">>}

OrdKeys == {IndexKey} \cup OrdRecordKeys

OrdProjectOps == {"createProject", "updateProject", "deleteProject"}

OrdRecordOps == {"createFinding", "updateFinding", "deleteFinding", "createAuditTrail"}

(* The record key a record operation may be called with. *)
OrdKeysOf(op) ==
    IF op \in OrdProjectOps THEN {IndexKey}
    ELSE IF op = "createAuditTrail" THEN {<<"audit", "p", "a1">>}
    ELSE {<<"finding", "p", "f1">>}

IndexThenRecord(op, key) ==
    IF op \in OrdProjectOps
    THEN <<[do |-> "lock", key |-> IndexKey], [do |-> "io", key |-> IndexKey],
           [do |-> "lock", key |-> <<"finding", "p", "f1">>],
           [do |-> "release", key |-> <<"finding", "p", "f1">>],
           [do |-> "release", key |-> IndexKey]>>
    ELSE <<[do |-> "lock", key |-> key], [do |-> "io", key |-> key],
           [do |-> "lock", key |-> IndexKey], [do |-> "io", key |-> IndexKey],
           [do |-> "release", key |-> IndexKey], [do |-> "release", key |-> key]>>

(* What a call of op does with the locks: withLock(key), the file I/O of   *)
(* the body, and for a record operation the nested updateProject.          *)
LockPlan(op, key) ==
    IF op \in OrdProjectOps
    THEN <<[do |-> "lock", key |-> IndexKey], [do |-> "io", key |-> IndexKey],
           [do |-> "release", key |-> IndexKey]>>
    ELSE <<[do |-> "lock", key |-> key], [do |-> "io", key |-> key],
           [do |-> "lock", key |-> IndexKey], [do |-> "io", key |-> IndexKey],
           [do |-> "release", key |-> IndexKey], [do |-> "release", key |-> key]>>

IdleOrd == [op |-> "none", key |-> IndexKey, at |-> 0, held |-> <<>>, err |-> "none"]

(* The step of its plan the call of c is at. *)
OrdStep(c) == LockPlan(proc[c].op, proc[c].key)[proc[c].at]

Requests(c, k) == proc[c].at > 0 /\ OrdStep(c).do = "lock" /\ OrdStep(c).key = k

(* The call ends when its plan does. *)
OrdNext(r) ==
    IF r.at = Len(LockPlan(r.op, r.key)) THEN IdleOrd ELSE [r EXCEPT !.at = r.at + 1]

restOrd == <<now, faults, indexFile, indexTmp, projDir, cache, recs, recTmp, hist, inst,
             page, doc, lst>>

ord_call(c, op, key) ==
    /\ proc[c].at = 0
    /\ calls > 0
    /\ calls' = calls - 1
    /\ proc' = [proc EXCEPT ![c] = [IdleOrd EXCEPT !.op = op, !.key = key, !.at = 1]]
    /\ last' = last
    /\ UNCHANGED locks
    /\ UNCHANGED restOrd

(* lockfile.lock creates the artifact. *)
ord_lock(c) ==
    /\ proc[c].at > 0
    /\ OrdStep(c).do = "lock"
    /\ locks[OrdStep(c).key] = "free"
    /\ locks' = [locks EXCEPT ![OrdStep(c).key] = c]
    /\ proc' = [proc EXCEPT ![c] = [OrdNext(proc[c]) EXCEPT
                                       !.held = <<OrdStep(c).key>> \o proc[c].held]]
    /\ UNCHANGED <<calls, last>>
    /\ UNCHANGED restOrd

(* The key stays held through the retries: 'Operation timed out waiting    *)
(* for lock' is thrown through the finally blocks of the withLock calls    *)
(* the call is in, which release what it holds.                            *)
ord_timeout(c) ==
    /\ proc[c].at > 0
    /\ OrdStep(c).do = "lock"
    /\ locks[OrdStep(c).key] # "free"
    /\ locks' = [k \in OrdKeys |-> IF locks[k] = c THEN "free" ELSE locks[k]]
    /\ proc' = [proc EXCEPT ![c] = IdleOrd]
    /\ last' = [proc[c] EXCEPT !.err = "Operation timed out waiting for lock"]
    /\ UNCHANGED calls
    /\ UNCHANGED restOrd

(* The file I/O of the body. *)
ord_io(c) ==
    /\ proc[c].at > 0
    /\ OrdStep(c).do = "io"
    /\ proc' = [proc EXCEPT ![c] = OrdNext(proc[c])]
    /\ UNCHANGED <<locks, calls, last>>
    /\ UNCHANGED restOrd

(* finally: release() *)
ord_release(c) ==
    /\ proc[c].at > 0
    /\ OrdStep(c).do = "release"
    /\ locks' = [locks EXCEPT ![OrdStep(c).key] = "free"]
    /\ proc' = [proc EXCEPT ![c] = [OrdNext(proc[c]) EXCEPT !.held = Tail(proc[c].held)]]
    /\ last' = IF proc[c].at = Len(LockPlan(proc[c].op, proc[c].key)) THEN proc[c] ELSE last
    /\ UNCHANGED calls
    /\ UNCHANGED restOrd

InitLocks ==
    /\ now = 0
    /\ faults = 0
    /\ calls = MaxLockCalls
    /\ indexFile = FullFile(Index0)
    /\ indexTmp = NoFile
    /\ projDir = [n \in Projects |-> IF n = P0 THEN FullDir(Meta0) ELSE NoDir]
    /\ locks = [k \in OrdKeys |-> "free"]
    /\ cache = [m \in Managers |-> Unloaded]
    /\ proc = [c \in OrdClients |-> IdleOrd]
    /\ last = IdleOrd
    /\ recs = NoRecs
    /\ recTmp = NoRecs
    /\ hist = NoHist
    /\ inst = NoInst
    /\ page = NoPage
    /\ doc = NoDoc
    /\ lst = NoLst

NextLocks ==
    \/ \E c \in OrdClients, op \in OrdProjectOps \cup OrdRecordOps :
           \E key \in OrdKeysOf(op) : ord_call(c, op, key)
    \/ \E c \in OrdClients : ord_lock(c)
    \/ \E c \in OrdClients : ord_timeout(c)
    \/ \E c \in OrdClients : ord_io(c)
    \/ \E c \in OrdClients : ord_release(c)

SpecLocks == InitLocks /\ [][NextLocks]_vars

(* c waits for a lock that d holds. *)
WaitsFor(c, d) == \E k \in OrdKeys : Requests(c, k) /\ locks[k] = d

(* The calls c can reach along WaitsFor in at most n steps. *)
RECURSIVE WaitChain(_, _)
WaitChain(c, n) ==
    IF n = 0 THEN {c}
    ELSE LET s == WaitChain(c, n - 1)
         IN s \cup {d \in OrdClients : \E b \in s : WaitsFor(b, d)}

(* C31: no set of concurrent storage operations forms a lock cycle.  A     *)
(* call that requests a lock while it holds one holds exactly its record   *)
(* lock and requests 'project-index'; a call that holds 'project-index'    *)
(* requests no lock; so no call waits, directly or through others, for a   *)
(* lock held by a call that waits for it.                                  *)
C31_NoLockCycle ==
    /\ \A c \in OrdClients, k \in OrdKeys :
           (Requests(c, k) /\ proc[c].held # <<>>)
               => /\ k = IndexKey
                  /\ Len(proc[c].held) = 1
                  /\ proc[c].held[1] \in OrdRecordKeys
    /\ \A c \in OrdClients :
           locks[IndexKey] = c => \A k \in OrdKeys : ~Requests(c, k)
    /\ \A c \in OrdClients :
           \A d \in OrdClients :
               ~(WaitsFor(c, d) /\ c \in WaitChain(d, Cardinality(OrdClients)))

(* Two record operations hold their record locks and wait for              *)
(* 'project-index', which a project operation holds.                       *)
C31_Witness ==
    \E b, c, d \in OrdClients :
        /\ b # c
        /\ proc[d].op \in OrdProjectOps
        /\ locks[IndexKey] = d
        /\ proc[b].held # <<>> /\ proc[c].held # <<>>
        /\ WaitsFor(b, d)
        /\ WaitsFor(c, d)

(* The place of pc in the code of op; 0 when it is not one of its pcs. *)
PlaceOf(op, pc) ==
    IF \E j \in 1..Len(Pcs(op)) : Pcs(op)[j] = pc
    THEN CHOOSE j \in 1..Len(Pcs(op)) : Pcs(op)[j] = pc
    ELSE 0

(* At pc the call has renamed its record file into place, or unlinked it. *)
RecordChanged(op, pc) ==
    \E w \in {"rename", "unlink"} : PlaceOf(op, w) > 0 /\ PlaceOf(op, pc) > PlaceOf(op, w)

(* C32: a createFinding, updateFinding, deleteFinding or createAuditTrail  *)
(* that raises an error leaves the record files as they were before the   *)
(* call: no error arises in a call once it has renamed its record file     *)
(* into place or unlinked it, in particular not in the bump of the         *)
(* project's timestamp.                                                    *)
C32_FailedCallLeavesRecords ==
    [][\A c \in MutClients :
           (proc[c].err = "none" /\ proc'[c].err # "none")
               => ~RecordChanged(proc[c].op, proc[c].pc)]_vars


(***************************************************************************)
(* updateProject writes project.json first and the index second (index.ts  *)
(* 969-985); its catch block only unlinks the temporary file (986-999).    *)
(***************************************************************************)
(* An updateProject that passed its checks (the project is in the index    *)
(* and in progress) returns, with or without an error of its write steps,  *)
(* while no other call is in flight.                                       *)
UpdateProjectReturns ==
    /\ last'.n # last.n
    /\ last'.op = "updateProject"
    /\ last'.res \in {"ok", "UpdateFailed"}
    /\ \A p \in Procs : proc'[p].pc = "idle"

(* The metadata of project.json and the project's entry of the index file. *)
ProjectFileMatchesIndex(n) ==
    /\ indexFile.st = "ok"
    /\ projDir[n].json = indexFile.data[n]

(* C33: after every updateProject call, whether it succeeded or failed in  *)
(* its write steps, the metadata in the project's project.json equals the  *)
(* project's entry in the on-disk index.                                   *)
C33_ProjectFileEqualsIndexEntry ==
    [][\A n \in Projects :
           (UpdateProjectReturns /\ sanitizeProjectName(last'.name) = n)
               => ProjectFileMatchesIndex(n)']_vars


(* p's updateProject fails in an fs call of its writeProjectIndex. *)
UpdateFailsWritingIndex(p) ==
    /\ proc[p].op = "updateProject"
    /\ proc[p].wret = "u"
    /\ proc[p].pc \in {"w_open", "w_write", "w_ren"}
    /\ proc'[p].err = "UpdateFailed"

(* What getProject(n) of manager m returns while its snapshot is loaded,   *)
(* and what the index file holds for n.                                    *)
SnapshotEntry(m, n) == cache[m].idx[n]

DiskEntry(n) == indexFile.data[n]

(* C34: when updateProject fails while writing the index, the manager's    *)
(* in-memory index snapshot does not keep the update that was not          *)
(* persisted: a getProject served from it returns the on-disk metadata.    *)
C34_FailedUpdateNotInSnapshot ==
    [][\A p \in Procs : \A n \in Projects :
           (UpdateFailsWritingIndex(p) /\ San(p) = n /\ cache'[proc[p].m].loaded)
               => SnapshotEntry(proc[p].m, n)' = DiskEntry(n)']_vars


(***************************************************************************)
(* The server constructs one StorageManager per handler on the same        *)
(* working directory (server/index.ts 68-78), each with its own            *)
(* projectIndexCache.                                                      *)
(***************************************************************************)

(* A record mutation called through manager m on the completed project     *)
(* returns; an updateFinding or deleteFinding is one of a finding that     *)
(* existed at the completion.                                              *)
MutationReturns(m) ==
    /\ last'.n # last.n
    /\ last'.op \in RecordOps
    /\ last'.m = m
    /\ sanitizeProjectName(last'.name) = P0
    /\ last'.op \in {"updateFinding", "deleteFinding"} => hist.recs[last'.id] # NoRec

(* C35: a completion committed through one StorageManager is honoured by   *)
(* the others of the process: after A's completing updateProject has       *)
(* returned, B's createFinding, updateFinding, deleteFinding and            *)
(* createAuditTrail on the project fail with ProjectCompletedError (or     *)
(* time out on a lock), even if B had read the index before.               *)
C35_CompletionHonouredByOtherManager ==
    [][(hist.done /\ MutationReturns("B"))
           => last'.res \in {"ProjectCompleted", "LockTimeout"}]_vars


(***************************************************************************)
(* updateFinding and deleteFinding called with two spellings of one        *)
(* project name.  The lock key is built from the name as the caller wrote  *)
(* it (index.ts 1399, 1491), the path of the finding from the sanitized    *)
(* name (getProjectPath, 740-750).  The project is in progress; recs is    *)
(* who wrote each finding file of it, recTmp the same for `<id>.md.tmp`.   *)
(***************************************************************************)
MaxSpellCalls == 3

SpellClients == {"s1", "s2"}

SpellOps == {"updateFinding", "deleteFinding"}

NoWriter == "none"

IdleSpell == [op |-> "idle", pc |-> "idle", name |-> <<>>, id |-> "none", err |-> "none"]

(* `finding-${projectName}-${findingId}` *)
SpellKey(r) == <<"finding">> \o r.name \o <<r.id>>

SpellKeys == {IndexKey} \cup {<<"finding">> \o n \o <<i>> : n \in NamesRecord, i \in FindingIds}

restSpell == <<now, faults, indexFile, indexTmp, projDir, cache, hist, inst, page, doc, lst>>

SpellSet(c, r) == proc' = [proc EXCEPT ![c] = r] /\ last' = last

sp_call(c, o, n, i) ==
    /\ proc[c].pc = "idle"
    /\ calls > 0
    /\ calls' = calls - 1
    /\ SpellSet(c, [IdleSpell EXCEPT !.op = o, !.pc = "lock", !.name = n, !.id = i])
    /\ UNCHANGED <<locks, recs, recTmp>>
    /\ UNCHANGED restSpell

(* lockfile.lock(`.mcp-lock-${lockKey}`) *)
sp_lock(c) ==
    /\ proc[c].pc = "lock"
    /\ locks[SpellKey(proc[c])] = "free"
    /\ locks' = [locks EXCEPT ![SpellKey(proc[c])] = c]
    /\ SpellSet(c, [proc[c] EXCEPT !.pc = "getFinding"])
    /\ UNCHANGED <<calls, recs, recTmp>>
    /\ UNCHANGED restSpell

(* The lock stays held through the retries: the record lock before the     *)
(* body, 'project-index' inside the try block.                             *)
sp_timeout(c) ==
    /\ proc[c].pc \in {"lock", "updateProject"}
    /\ locks[IF proc[c].pc = "lock" THEN SpellKey(proc[c]) ELSE IndexKey] # "free"
    /\ IF proc[c].pc = "lock"
       THEN proc' = [proc EXCEPT ![c] = IdleSpell]
            /\ last' = [proc[c] EXCEPT !.err = "LockTimeout"]
       ELSE SpellSet(c, [proc[c] EXCEPT !.err = "LockTimeout",
                                        !.pc = IF proc[c].op = "updateFinding"
                                               THEN "catch" ELSE "release"])
    /\ UNCHANGED <<calls, locks, recs, recTmp>>
    /\ UNCHANGED restSpell

(* getFinding reads <sanitized project>/findings/<id>.md; the guard        *)
(* checkProjectNotCompleted passes, the project being in progress.         *)
sp_getFinding(c) ==
    /\ proc[c].pc = "getFinding"
    /\ SpellSet(c, IF recs[proc[c].id] = NoWriter
                   THEN [proc[c] EXCEPT !.pc = "release", !.err = "FindingNotFound"]
                   ELSE [proc[c] EXCEPT !.pc = IF proc[c].op = "updateFinding"
                                                THEN "writeFile" ELSE "unlink"])
    /\ UNCHANGED <<calls, locks, recs, recTmp>>
    /\ UNCHANGED restSpell

(* fs.writeFile(tempPath, content) *)
sp_writeFile(c) ==
    /\ proc[c].pc = "writeFile"
    /\ recTmp' = [recTmp EXCEPT ![proc[c].id] = c]
    /\ SpellSet(c, [proc[c] EXCEPT !.pc = "rename"])
    /\ UNCHANGED <<calls, locks, recs>>
    /\ UNCHANGED restSpell

(* fs.rename(tempPath, findingPath): ENOENT when the temporary file is     *)
(* gone.                                                                   *)
sp_rename(c) ==
    /\ proc[c].pc = "rename"
    /\ IF recTmp[proc[c].id] = NoWriter
       THEN /\ UNCHANGED <<recs, recTmp>>
            /\ SpellSet(c, [proc[c] EXCEPT !.pc = "catch", !.err = "ENOENT"])
       ELSE /\ recs' = [recs EXCEPT ![proc[c].id] = recTmp[proc[c].id]]
            /\ recTmp' = [recTmp EXCEPT ![proc[c].id] = NoWriter]
            /\ SpellSet(c, [proc[c] EXCEPT !.pc = "updateProject"])
    /\ UNCHANGED <<calls, locks>>
    /\ UNCHANGED restSpell

(* fs.unlink(findingPath): ENOENT when the finding file is gone. *)
sp_unlink(c) ==
    /\ proc[c].pc = "unlink"
    /\ IF recs[proc[c].id] = NoWriter
       THEN /\ recs' = recs
            /\ SpellSet(c, [proc[c] EXCEPT !.pc = "release", !.err = "ENOENT"])
       ELSE /\ recs' = [recs EXCEPT ![proc[c].id] = NoWriter]
            /\ SpellSet(c, [proc[c] EXCEPT !.pc = "updateProject"])
    /\ UNCHANGED <<calls, locks, recTmp>>
    /\ UNCHANGED restSpell

(* this.updateProject(projectName, {}) takes 'project-index' ... *)
sp_updateProject_lock(c) ==
    /\ proc[c].pc = "updateProject"
    /\ locks[IndexKey] = "free"
    /\ locks' = [locks EXCEPT ![IndexKey] = c]
    /\ SpellSet(c, [proc[c] EXCEPT !.pc = "updateProject_write"])
    /\ UNCHANGED <<calls, recs, recTmp>>
    /\ UNCHANGED restSpell

(* ... writes the project's files and releases it; invalidateCache follows. *)
sp_updateProject_write(c) ==
    /\ proc[c].pc = "updateProject_write"
    /\ locks' = [locks EXCEPT ![IndexKey] = "free"]
    /\ SpellSet(c, [proc[c] EXCEPT !.pc = "release"])
    /\ UNCHANGED <<calls, recs, recTmp>>
    /\ UNCHANGED restSpell

(* updateFinding's catch: fs.unlink(tempPath), errors ignored. *)
sp_catch(c) ==
    /\ proc[c].pc = "catch"
    /\ recTmp' = [recTmp EXCEPT ![proc[c].id] = NoWriter]
    /\ SpellSet(c, [proc[c] EXCEPT !.pc = "release"])
    /\ UNCHANGED <<calls, locks, recs>>
    /\ UNCHANGED restSpell

(* withLock's finally releases the record lock; the call returns or throws. *)
sp_release(c) ==
    /\ proc[c].pc = "release"
    /\ locks' = [locks EXCEPT ![SpellKey(proc[c])] = "free"]
    /\ proc' = [proc EXCEPT ![c] = IdleSpell]
    /\ last' = proc[c]
    /\ UNCHANGED <<calls, recs, recTmp>>
    /\ UNCHANGED restSpell

InitSpelling ==
    /\ now = 0
    /\ faults = 0
    /\ calls = MaxSpellCalls
    /\ indexFile = FullFile(Index0)
    /\ indexTmp = NoFile
    /\ projDir = [n \in Projects |-> NoDir]
    /\ locks = [k \in SpellKeys |-> "free"]
    /\ cache = Unloaded
    /\ proc = [c \in SpellClients |-> IdleSpell]
    /\ last = IdleSpell
    /\ recs = [i \in FindingIds |-> IF i = "f1" THEN "init" ELSE NoWriter]
    /\ recTmp = [i \in FindingIds |-> NoWriter]
    /\ hist = NoHist
    /\ inst = NoInst
    /\ page = NoPage
    /\ doc = NoDoc
    /\ lst = NoLst

NextSpelling ==
    \/ \E c \in SpellClients, o \in SpellOps, n \in NamesRecord, i \in FindingIds :
           sp_call(c, o, n, i)
    \/ \E c \in SpellClients : sp_lock(c)
    \/ \E c \in SpellClients : sp_timeout(c)
    \/ \E c \in SpellClients : sp_getFinding(c)
    \/ \E c \in SpellClients : sp_writeFile(c)
    \/ \E c \in SpellClients : sp_rename(c)
    \/ \E c \in SpellClients : sp_unlink(c)
    \/ \E c \in SpellClients : sp_updateProject_lock(c)
    \/ \E c \in SpellClients : sp_updateProject_write(c)
    \/ \E c \in SpellClients : sp_catch(c)
    \/ \E c \in SpellClients : sp_release(c)

SpecSpelling == InitSpelling /\ [][NextSpelling]_vars

(* The call of c is inside the operation of its withLock, on the finding i *)
(* of the project stored as n.                                             *)
InFindingBody(c, n, i) ==
    /\ proc[c].pc \notin {"idle", "lock"}
    /\ sanitizeProjectName(proc[c].name) = n
    /\ proc[c].id = i

(* C36: two updateFinding or deleteFinding calls on the same stored        *)
(* finding exclude each other also when the callers spell the project      *)
(* name differently and both spellings sanitize to the same project.       *)
C36_SpellingsShareRecordLock ==
    \A c, d \in SpellClients : \A n \in Projects : \A i \in FindingIds :
        (c # d /\ InFindingBody(c, n, i)) => ~InFindingBody(d, n, i)


(***************************************************************************)
(* acquireInstanceLock with the files its steps touch.  Every process      *)
(* runs ensureDirectoryExists and initializeProjectIndex before            *)
(* lockfile.lock (index.ts 294-301); a process that holds the lock writes  *)
(* the index through the same temporary path.  inst.art is the holder of   *)
(* the lock artifact; a call remembers in `wrote` whether one of its own   *)
(* steps created or replaced a file of the directory.                      *)
(***************************************************************************)
MaxAcquireCalls == 4

NoHolder == "none"

IdleAcquire == [pc |-> "down", wrote |-> FALSE, res |-> NoMsg]

restAcquire == <<now, faults, projDir, locks, cache, proc, last, recs, recTmp, hist, page,
                 doc, lst>>

(* The process starts and calls acquireInstanceLock. *)
acq_call(i) ==
    /\ Mgr(i).pc = "down"
    /\ calls > 0
    /\ calls' = calls - 1
    /\ inst' = [inst EXCEPT !.mgr[i] = [IdleAcquire EXCEPT !.pc = "ensureDirectory"]]
    /\ UNCHANGED <<indexFile, indexTmp>>
    /\ UNCHANGED restAcquire

(* ensureDirectoryExists(workingDir): the directory exists. *)
acq_ensureDirectory(i) ==
    /\ Mgr(i).pc = "ensureDirectory"
    /\ inst' = [inst EXCEPT !.mgr[i].pc = "access"]
    /\ UNCHANGED <<calls, indexFile, indexTmp>>
    /\ UNCHANGED restAcquire

(* initializeProjectIndex: fs.access(projectIndexPath) *)
acq_access(i) ==
    /\ Mgr(i).pc = "access"
    /\ inst' = [inst EXCEPT !.mgr[i].pc =
                    IF indexFile.st = "absent" THEN "writeFile" ELSE "lock"]
    /\ UNCHANGED <<calls, indexFile, indexTmp>>
    /\ UNCHANGED restAcquire

(* fs.writeFile(tempPath, JSON.stringify(emptyIndex)) *)
acq_writeFile(i) ==
    /\ Mgr(i).pc = "writeFile"
    /\ indexTmp' = FullFile(EmptyIndex)
    /\ inst' = [inst EXCEPT !.mgr[i].pc = "rename", !.mgr[i].wrote = TRUE]
    /\ UNCHANGED <<calls, indexFile>>
    /\ UNCHANGED restAcquire

(* fs.rename(tempPath, projectIndexPath); ENOENT when the temporary file   *)
(* is gone: 'Failed to initialize project index', rethrown as 'Failed to   *)
(* acquire instance lock'.                                                 *)
acq_rename(i) ==
    /\ Mgr(i).pc = "rename"
    /\ IF indexTmp.st = "absent"
       THEN /\ UNCHANGED <<indexFile, indexTmp>>
            /\ inst' = [inst EXCEPT !.mgr[i].pc = "down",
                                    !.mgr[i].res = FailedToAcquireError]
       ELSE /\ indexFile' = indexTmp
            /\ indexTmp' = NoFile
            /\ inst' = [inst EXCEPT !.mgr[i].pc = "lock"]
    /\ UNCHANGED calls
    /\ UNCHANGED restAcquire

(* lockfile.lock(instanceLockPath, {retries: 0}) creates the artifact. *)
acq_lock(i) ==
    /\ Mgr(i).pc = "lock"
    /\ inst.art = NoHolder
    /\ inst' = [inst EXCEPT !.art = i, !.mgr[i].pc = "up"]
    /\ UNCHANGED <<calls, indexFile, indexTmp>>
    /\ UNCHANGED restAcquire

(* 'Lock file is already being held': the 'Another MCP Security Report     *)
(* instance is already running' error.                                     *)
acq_held(i) ==
    /\ Mgr(i).pc = "lock"
    /\ inst.art # NoHolder
    /\ inst' = [inst EXCEPT !.mgr[i].pc = "down", !.mgr[i].res = AnotherInstanceError]
    /\ UNCHANGED <<calls, indexFile, indexTmp>>
    /\ UNCHANGED restAcquire

(* releaseInstanceLock: the process stops. *)
acq_release(i) ==
    /\ Mgr(i).pc = "up"
    /\ inst' = [inst EXCEPT !.art = NoHolder, !.mgr[i] = IdleAcquire]
    /\ UNCHANGED <<calls, indexFile, indexTmp>>
    /\ UNCHANGED restAcquire

(* The holder's writeProjectIndex(index): fs.writeFile(tempPath, ...) *)
acq_writeProjectIndex(i, idx) ==
    /\ Mgr(i).pc = "up"
    /\ calls > 0
    /\ calls' = calls - 1
    /\ indexTmp' = FullFile(idx)
    /\ inst' = [inst EXCEPT !.mgr[i].pc = "w_rename"]
    /\ UNCHANGED indexFile
    /\ UNCHANGED restAcquire

(* ... and fs.rename(tempPath, projectIndexPath), or its catch. *)
acq_writeProjectIndex_rename(i) ==
    /\ Mgr(i).pc = "w_rename"
    /\ IF indexTmp.st = "absent"
       THEN UNCHANGED <<indexFile, indexTmp>>
       ELSE indexFile' = indexTmp /\ indexTmp' = NoFile
    /\ inst' = [inst EXCEPT !.mgr[i].pc = "up"]
    /\ UNCHANGED calls
    /\ UNCHANGED restAcquire

InitAcquire ==
    /\ now = 0
    /\ faults = 0
    /\ calls = MaxAcquireCalls
    /\ indexFile \in {NoFile, FullFile(EmptyIndex), FullFile(Index0)}
    /\ indexTmp = NoFile
    /\ projDir = [n \in Projects |-> NoDir]
    /\ locks = [k \in LockKeys |-> "free"]
    /\ cache = [m \in Managers |-> Unloaded]
    /\ proc = [p \in Procs |-> IdleProc]
    /\ last = IdleProc
    /\ recs = NoRecs
    /\ recTmp = NoRecs
    /\ hist = NoHist
    /\ inst = [art |-> NoHolder, mgr |-> [i \in Instances |-> IdleAcquire]]
    /\ page = NoPage
    /\ doc = NoDoc
    /\ lst = NoLst

NextAcquire ==
    \/ \E i \in Instances : acq_call(i)
    \/ \E i \in Instances : acq_ensureDirectory(i)
    \/ \E i \in Instances : acq_access(i)
    \/ \E i \in Instances : acq_writeFile(i)
    \/ \E i \in Instances : acq_rename(i)
    \/ \E i \in Instances : acq_lock(i)
    \/ \E i \in Instances : acq_held(i)
    \/ \E i \in Instances : acq_release(i)
    \/ \E i \in Instances, idx \in IndexChoices : acq_writeProjectIndex(i, idx)
    \/ \E i \in Instances : acq_writeProjectIndex_rename(i)

SpecAcquire == InitAcquire /\ [][NextAcquire]_vars

(* The acquireInstanceLock call of i fails with this step because another  *)
(* instance holds the lock.                                                *)
FailsHeld(i) ==
    /\ Mgr(i).pc = "lock"
    /\ inst'.mgr[i].res = AnotherInstanceError

(* C37: an acquireInstanceLock call that fails because another instance    *)
(* holds the lock has created, rewritten or deleted no file of the storage *)
(* directory, in particular not the project index.                         *)
C37_FailedAcquireWritesNothing ==
    [][\A i \in Instances : FailsHeld(i) => ~Mgr(i).wrote]_vars


(***************************************************************************)
(* updateFinding on a stored finding: getFinding reads the file, the       *)
(* updates are spread over what it returned, the file is rewritten and a   *)
(* later getFinding reads it again.  doc is the one finding: the input it  *)
(* was created from, the updates, what getFinding returned before the      *)
(* rewrite (existing), the file, and what getFinding returns after (out).  *)
(***************************************************************************)
UpdatableFields == {"title", "description", "evidence", "cvssString"}

(* The valid inputs and updates of the model; an update names a set of     *)
(* fields and gives each a value.                                          *)
RewriteInputs ==
    [title : {Some(<<"t">>)},
     severity : {Some("high")},
     cwe : {Undefined, Some(<<"CWE-79">>)},
     cvssString : {Undefined, Some(<<"CVSS:3.1/AV:N">>)},
     components : {Undefined},
     description : {Some(s) : s \in Texts(2) \ {<<>>}},
     evidence : {Undefined, Some(<<"a">>)},
     recommendations : {Undefined, Some(<<"a">>)}]

UpdateValues ==
    [title |-> Some(<<"u">>), description |-> Some(<<"b">>), evidence |-> Some(<<"b">>),
     cvssString |-> Some(<<"CVSS:3.1/AV:L">>)]

NoRewrite == [pc |-> "none", input |-> <<>>, named |-> {}, existing |-> <<>>,
              file |-> <<>>, out |-> <<>>]

(* `{...existing, ...updates, updated: new Date()}` and the score of a     *)
(* vector the updates name.                                                *)
Updated(existing, named, t) ==
    [f \in FindingFields |->
        IF f = "updated" THEN Some(t)
        ELSE IF f \in named THEN UpdateValues[f]
        ELSE IF f = "cvssScore" /\ "cvssString" \in named
        THEN IF Truthy(UpdateValues.cvssString)
             THEN Some(cvssScore(UpdateValues.cvssString.v)) ELSE Undefined
        ELSE existing[f]]

rw_createFinding ==
    /\ doc.pc = "called"
    /\ doc' = [doc EXCEPT !.pc = "created", !.file = FindingFile(NewFinding(doc.input, now))]
    /\ UNCHANGED now
    /\ UNCHANGED restDoc

(* const existing = await this.getFinding(projectName, findingId) *)
rw_updateFinding_getFinding ==
    /\ doc.pc = "created"
    /\ doc' = [doc EXCEPT !.pc = "got", !.existing = ReadFinding(doc.file)]
    /\ UNCHANGED now
    /\ UNCHANGED restDoc

(* The merge, matter.stringify, writeFile and rename. *)
rw_updateFinding_write ==
    /\ doc.pc = "got"
    /\ \E t \in now..MaxTime :
           /\ now' = t
           /\ doc' = [doc EXCEPT !.pc = "updated",
                                 !.file = FindingFile(Updated(doc.existing, doc.named, t))]
    /\ UNCHANGED restDoc

(* getFinding(projectName, findingId) after the update. *)
rw_getFinding ==
    /\ doc.pc = "updated"
    /\ doc' = [doc EXCEPT !.pc = "read", !.out = ReadFinding(doc.file)]
    /\ UNCHANGED now
    /\ UNCHANGED restDoc

InitRewrite ==
    /\ now = 0
    /\ faults = 0
    /\ calls = 0
    /\ indexFile = FullFile(Index0)
    /\ indexTmp = NoFile
    /\ projDir = [n \in Projects |-> NoDir]
    /\ locks = [k \in LockKeys |-> "free"]
    /\ cache = [m \in Managers |-> Unloaded]
    /\ proc = [p \in Procs |-> IdleProc]
    /\ last = IdleProc
    /\ recs = NoRecs
    /\ recTmp = NoRecs
    /\ hist = NoHist
    /\ inst = NoInst
    /\ page = NoPage
    /\ lst = NoLst
    /\ \E i \in RewriteInputs, n \in SUBSET UpdatableFields :
           doc = [NoRewrite EXCEPT !.pc = "called", !.input = i, !.named = n]

NextRewrite ==
    \/ rw_createFinding
    \/ rw_updateFinding_getFinding
    \/ rw_updateFinding_write
    \/ rw_getFinding

SpecRewrite == InitRewrite /\ [][NextRewrite]_vars

(* The fields updateFinding may change for an update of the named fields. *)
MayChange(named) ==
    named \cup {"updated"} \cup (IF "cvssString" \in named THEN {"cvssScore"} ELSE {})

(* C38: updateFinding changes only the fields named in its updates plus    *)
(* `updated` (and cvssScore when a cvssString is given): id, created and   *)
(* every field that is not named read the same after the call as before.   *)
C38_UpdateKeepsUnnamedFields ==
    doc.pc = "read" =>
        \A f \in FindingFields \ MayChange(doc.named) : doc.out[f] = doc.existing[f]


(***************************************************************************)
(* LRUCache.withMutex step by step.  get, set and delete are async         *)
(* methods: a call runs withMutex synchronously up to its first await;     *)
(* the caller gets the result in a later turn of the event loop.  A turn   *)
(* runs to completion: no other call takes a step while one is between     *)
(* the start of a synchronous run and its end.  locks is operationMutex    *)
(* (the call whose promise each key holds), cache the Map in its insertion *)
(* order, proc the calls in flight.                                        *)
(***************************************************************************)
MaxMutexCalls == 3

MxClients == {"x1", "x2"}

MxKeys == {"p-findings", "q-findings"}

MxOps == {"get", "set", "delete"}

NoPromise == "none"

IdleMx == [pc |-> "idle", op |-> "none", key |-> "none", data |-> "none",
           existingOperation |-> NoPromise, result |-> "none"]

(* The pcs inside a synchronous run of withMutex. *)
SyncPcs == {"getMutex", "setMutex", "operation", "finally"}

Preemptive(c) == TRUE

(* The event loop can start a turn of c: no other call is inside one. *)
TurnFree(c) == \A d \in MxClients \ {c} : proc[d].pc \notin SyncPcs

restMx == <<now, faults, indexFile, indexTmp, projDir, recs, recTmp, hist, inst, page,
            doc, lst>>

(* cache.get(key) / cache.set(key, ...) / cache.delete(key) is called. *)
mx_call(c, op, key, data) ==
    /\ proc[c].pc = "idle"
    /\ TurnFree(c)
    /\ calls > 0
    /\ calls' = calls - 1
    /\ proc' = [proc EXCEPT ![c] = [IdleMx EXCEPT !.pc = "getMutex", !.op = op, !.key = key,
                                                  !.data = IF op = "set" THEN data
                                                           ELSE "none"]]
    /\ UNCHANGED <<locks, cache, last>>
    /\ UNCHANGED restMx

(* const existingOperation = this.operationMutex.get(key); an existing     *)
(* one is awaited, which ends the turn.                                    *)
mx_getMutex(c) ==
    /\ proc[c].pc = "getMutex"
    /\ proc' = [proc EXCEPT ![c] =
                   IF locks[proc[c].key] # NoPromise
                   THEN [proc[c] EXCEPT !.pc = "await",
                                        !.existingOperation = locks[proc[c].key]]
                   ELSE [proc[c] EXCEPT !.pc = "setMutex"]]
    /\ UNCHANGED <<calls, locks, cache, last>>
    /\ UNCHANGED restMx

(* this.operationMutex.set(key, operationPromise) *)
mx_setMutex(c) ==
    /\ proc[c].pc = "setMutex"
    /\ locks' = [locks EXCEPT ![proc[c].key] = c]
    /\ proc' = [proc EXCEPT ![c].pc = "operation"]
    /\ UNCHANGED <<calls, cache, last>>
    /\ UNCHANGED restMx

(* const result = operation(): the body of get, set or delete. *)
mx_operation(c) ==
    /\ proc[c].pc = "operation"
    /\ LET key == proc[c].key
           hit == key \in Keys(cache.entries)
           entry == [key |-> key, data |-> proc[c].data, lastModified |-> 0,
                     lastAccessed |-> 0]
       IN /\ cache' = [cache EXCEPT !.entries =
                          CASE proc[c].op = "get" ->
                                 IF hit THEN MoveToEnd(cache.entries, key, 0)
                                 ELSE cache.entries
                            [] proc[c].op = "set" ->
                                 evictIfNeeded(Append(Without(cache.entries, key), entry),
                                               cache.maxSize)
                            [] OTHER -> Without(cache.entries, key)]
          /\ proc' = [proc EXCEPT ![c].pc = "finally",
                                  ![c].result = IF proc[c].op = "get" /\ hit
                                                THEN EntryOf(cache.entries, key).data
                                                ELSE IF hit THEN "hit" ELSE "none"]
    /\ UNCHANGED <<calls, locks, last>>
    /\ UNCHANGED restMx

(* finally: this.operationMutex.delete(key); resolveOperation(); the turn  *)
(* ends with the promise of the call resolved.                             *)
mx_finally(c) ==
    /\ proc[c].pc = "finally"
    /\ locks' = [locks EXCEPT ![proc[c].key] = NoPromise]
    /\ proc' = [proc EXCEPT ![c].pc = "result"]
    /\ UNCHANGED <<calls, cache, last>>
    /\ UNCHANGED restMx

(* The event loop resumes c: after `await existingOperation`, once that    *)
(* promise is resolved, withMutex goes on with its own promise; after the  *)
(* call's promise is resolved, the caller has the result.                  *)
mx_resume(c) ==
    /\ proc[c].pc \in {"await", "result"}
    /\ TurnFree(c)
    /\ IF proc[c].pc = "await"
       THEN /\ locks[proc[c].key] # proc[c].existingOperation
            /\ proc' = [proc EXCEPT ![c].pc = "setMutex"]
            /\ last' = last
       ELSE /\ proc' = [proc EXCEPT ![c] = IdleMx]
            /\ last' = proc[c]
    /\ UNCHANGED <<calls, locks, cache>>
    /\ UNCHANGED restMx

InitMutex ==
    /\ now = 0
    /\ faults = 0
    /\ calls = MaxMutexCalls
    /\ indexFile = FullFile(EmptyIndex)
    /\ indexTmp = NoFile
    /\ projDir = [n \in Projects |-> NoDir]
    /\ locks = [k \in MxKeys |-> NoPromise]
    /\ cache = [configured |-> NotSet, maxSize |-> MaxSizeOf(cacheSize(NotSet)),
                entries |-> <<>>]
    /\ proc = [c \in MxClients |-> IdleMx]
    /\ last = IdleMx
    /\ recs = NoRecs
    /\ recTmp = NoRecs
    /\ hist = NoHist
    /\ inst = NoInst
    /\ page = NoPage
    /\ doc = NoDoc
    /\ lst = NoLst

NextMutex ==
    \/ \E c \in MxClients, op \in MxOps, key \in MxKeys, data \in LruData :
           mx_call(c, op, key, data)
    \/ \E c \in MxClients : mx_getMutex(c)
    \/ \E c \in MxClients : mx_setMutex(c)
    \/ \E c \in MxClients : mx_operation(c)
    \/ \E c \in MxClients : mx_finally(c)
    \/ \E c \in MxClients : mx_resume(c)

SpecMutex == InitMutex /\ [][NextMutex]_vars

(* The call of c is past the check of operationMutex and before the end    *)
(* of its finally block, on key.                                           *)
InOperation(c, key) ==
    /\ proc[c].pc \in {"setMutex", "operation", "finally"}
    /\ proc[c].key = key

(* C39: no two cache operations on the same key interleave, and a call     *)
(* waits only for an operation on its own key: operations on different     *)
(* keys do not block each other.                                           *)
C39_PerKeyOperationsAtomic ==
    /\ [](\A c, d \in MxClients : \A key \in MxKeys :
              (c # d /\ InOperation(c, key)) => ~InOperation(d, key))
    /\ [][\A c \in MxClients :
              (proc[c].pc = "getMutex" /\ proc'[c].pc = "await")
                  => \E d \in MxClients \ {c} : InOperation(d, proc[c].key)]_vars

(* Two calls on one key are in flight: one inside its operation, the other *)
(* with its result not yet delivered.                                      *)
C39_Witness ==
    \E c, d \in MxClients : \E key \in MxKeys :
        /\ c # d
        /\ proc[c].pc = "operation" /\ proc[c].key = key
        /\ proc[d].pc = "result" /\ proc[d].key = key


(***************************************************************************)
(* The process-wide sweep timer.  instanceCount, cleanupInterval and       *)
(* lastCleanup are static fields of StorageManager (index.ts 213-216);     *)
(* the constructor counts the instance and calls schedulePeriodicCleanup,  *)
(* cleanup() counts it out and cancels the timer with the last one.  Time  *)
(* is in minutes; the process starts long after the epoch, where           *)
(* lastCleanup = 0 lies.  inst holds the static fields, the time the timer *)
(* was set or fired last, and what has been done with each manager.        *)
(***************************************************************************)
MaxTimerCalls == 4

MaxTimerTime == 16

(* const cleanupInterval = 5 * 60 * 1000 *)
cleanupIntervalMin == 5

NoTimer == [instanceCount |-> 0, cleanupInterval |-> FALSE, lastCleanup |-> 0, since |-> 0,
            mgr |-> [m \in Managers |-> "none"]]

restTimer == <<faults, indexFile, indexTmp, projDir, locks, cache, proc, last, recs, recTmp,
               hist, page, doc, lst>>

(* schedulePeriodicCleanup at time t on the static fields s: nothing after *)
(* a recent sweep; else the timer is set if there is none, and a sweep     *)
(* starts at once (performScheduledCleanup sets lastCleanup first).        *)
schedulePeriodicCleanup(s, t) ==
    IF t - s.lastCleanup < cleanupIntervalMin THEN s
    ELSE IF ~s.cleanupInterval
    THEN [s EXCEPT !.cleanupInterval = TRUE, !.since = t,
                   !.lastCleanup = IF t - s.lastCleanup > cleanupIntervalMin THEN t ELSE @]
    ELSE s

(* cancelPeriodicCleanup *)
cancelPeriodicCleanup(s) == [s EXCEPT !.cleanupInterval = FALSE]

(* new StorageManager(workingDir) *)
tm_constructor(m) ==
    /\ inst.mgr[m] = "none"
    /\ calls > 0
    /\ calls' = calls - 1
    /\ inst' = schedulePeriodicCleanup(
                   [inst EXCEPT !.instanceCount = @ + 1, !.mgr[m] = "constructed"], now)
    /\ UNCHANGED now
    /\ UNCHANGED restTimer

(* cleanup(), of a constructed manager or again of a cleaned-up one:       *)
(* await this.releaseInstanceLock()                                        *)
tm_cleanup(m) ==
    /\ inst.mgr[m] \in {"constructed", "cleaned"}
    /\ calls > 0
    /\ calls' = calls - 1
    /\ inst' = [inst EXCEPT !.mgr[m] = "releasing"]
    /\ UNCHANGED now
    /\ UNCHANGED restTimer

(* ... then instanceCount--, and with no instance left the timer is        *)
(* cancelled and the count set to 0.                                       *)
tm_cleanup_count(m) ==
    /\ inst.mgr[m] = "releasing"
    /\ LET s == [inst EXCEPT !.instanceCount = @ - 1, !.mgr[m] = "cleaned"]
       IN inst' = IF s.instanceCount <= 0
                  THEN [cancelPeriodicCleanup(s) EXCEPT !.instanceCount = 0]
                  ELSE s
    /\ UNCHANGED <<now, calls>>
    /\ UNCHANGED restTimer

(* The interval timer fires: performScheduledCleanup. *)
tm_fire ==
    /\ inst.cleanupInterval
    /\ now - inst.since >= cleanupIntervalMin
    /\ inst' = [inst EXCEPT !.since = now, !.lastCleanup = now]
    /\ UNCHANGED <<now, calls>>
    /\ UNCHANGED restTimer

(* Time passes; a timer that is due fires first. *)
tm_tick ==
    /\ now < MaxTimerTime
    /\ ~(inst.cleanupInterval /\ now - inst.since >= cleanupIntervalMin)
    /\ now' = now + 1
    /\ UNCHANGED <<calls, inst>>
    /\ UNCHANGED restTimer

InitTimer ==
    /\ now = cleanupIntervalMin + 1
    /\ faults = 0
    /\ calls = MaxTimerCalls
    /\ indexFile = FullFile(EmptyIndex)
    /\ indexTmp = NoFile
    /\ projDir = [n \in Projects |-> NoDir]
    /\ locks = [k \in LockKeys |-> "free"]
    /\ cache = [m \in Managers |-> Unloaded]
    /\ proc = [p \in Procs |-> IdleProc]
    /\ last = IdleProc
    /\ recs = NoRecs
    /\ recTmp = NoRecs
    /\ hist = NoHist
    /\ inst = NoTimer
    /\ page = NoPage
    /\ doc = NoDoc
    /\ lst = NoLst

NextTimer ==
    \/ \E m \in Managers : tm_constructor(m)
    \/ \E m \in Managers : tm_cleanup(m)
    \/ \E m \in Managers : tm_cleanup_count(m)
    \/ tm_fire
    \/ tm_tick

SpecTimer == InitTimer /\ [][NextTimer]_vars

(* The managers that were constructed and on which cleanup() has not been  *)
(* called.                                                                 *)
NotCleanedUp == {m \in Managers : inst.mgr[m] = "constructed"}

(* C40: whenever a constructed StorageManager has not been cleaned up, the *)
(* periodic sweep timer of the process is scheduled.                       *)
C40_TimerScheduledWhileInUse ==
    NotCleanedUp # {} => inst.cleanupInterval
====
